---- MODULE Spec2Model ----
(***************************************************************************)
(* Go Template Studio: the preview session manager                         *)
(* (src/src/services/previewManager.ts), the diagnostic mapper             *)
(* (src/src/services/diagnosticService.ts) and the calling contract of the *)
(* renderer client (RendererService.render).                               *)
(*                                                                         *)
(* The extension host is a single-threaded event loop.  Every action below *)
(* is one run-to-completion piece of code: an event handler, a command, a  *)
(* timer callback, or the continuation of an async function after one of   *)
(* its awaits.                                                             *)
(***************************************************************************)
EXTENDS Integers, Sequences, FiniteSets, Bags, TLC

(***************************************************************************)
(* Bounds of the model.                                                    *)
(***************************************************************************)
\* session objects (and their panels) that are alive at the same time
MaxSessions == 2
\* timer handles that exist at the same time
MaxTimers == 2
\* renderSession calls that are suspended at an await at the same time
MaxInFlight == 2
\* edits of one document
MaxVersion == 2
\* commands and notifications the manager receives in one run
MaxEvents == 3

NONE == "none"

(***************************************************************************)
(* Documents.  A vscode.Uri of the file scheme is modelled by its path     *)
(* string; toString() and fsPath are in bijection, so one string stands    *)
(* for both.  Two of the templates differ in case only: they are the same  *)
(* file on win32 and distinct files elsewhere.                             *)
(***************************************************************************)
TemplateUris == {"A.tmpl", "a.tmpl"}
ContextUris == {"c.json"}
Uris == TemplateUris \cup ContextUris
OptContextUris == ContextUris \cup {NONE}
LanguageIds == {"gotemplate", "plaintext"}
Platforms == {"win32", "linux"}

\* String.prototype.toLowerCase on the strings of the model
toLowerCase(value) ==
  CASE value = "A.tmpl" -> "a.tmpl"
    [] value = ".HTML" -> ".html"
    [] OTHER -> value

\* path.extname on the paths of the model
extname(p) ==
  CASE p \in {"A.tmpl", "a.tmpl"} -> ".tmpl"
    [] p = "c.json" -> ".json"
    [] OTHER -> ""

VARIABLES
  platform,     \* process.platform
  docs,         \* the editor's text documents: file -> [version, isDirty]
  sessions,     \* PreviewManager.sessions: key -> session object id
  heap,         \* the PreviewSession objects: id -> record
  panels,       \* the webview panels: id -> [disposed, html]
  timers,       \* armed Node timers: handle -> session object id
  tasks,        \* bag of renderSession calls awaiting the engine's answer
  collection,   \* the DiagnosticCollection: uri -> list of vscode.Diagnostic
  called,       \* the renderSession call of the last step: <<>> or <<call>>
  posted,       \* what the last step posted to a webview: <<>> or <<message>>
  rejected,     \* the last step ended in a rejected renderSession promise
  subscribed,   \* the manager's event subscriptions are live (not disposed)
  events,       \* commands and notifications received so far
  request,      \* the arguments of a call that is followed on its own
                \* (applyDiagnostics, handleWebviewMessage, the worker's
                \* execute): <<>> or <<args>>
  mapped,       \* what that call returned or did: <<>> or <<result>>
  textDocuments,\* vscode.workspace.textDocuments: uri as spelled -> [isDirty]
  call,         \* the frame of a call of RendererService.render
  tempDirs,     \* the directories mkdtemp made that exist: id -> file content
  child,        \* the spawned process and the promise of spawnProcess
  associations, \* ContextAssociationManager.associations: template -> context
  history       \* the configurations and setActiveContext calls it received

vars == <<platform, docs, sessions, heap, panels, timers, tasks, collection,
          called, posted, rejected, subscribed, events, request, mapped,
          textDocuments, call, tempDirs, child, associations, history>>

\* the variables of the RendererService
rendererVars == <<textDocuments, call, tempDirs, child>>

\* the variables of the ContextAssociationManager
associationVars == <<associations, history>>

\* no ContextAssociationManager is followed
AssociationsIdle ==
  /\ associations = <<>>
  /\ history = <<>>

\* no call of RendererService.render is followed
RendererIdle ==
  /\ textDocuments = <<>>
  /\ call = [pc |-> "idle"]
  /\ tempDirs = <<>>
  /\ child = <<>>

(***************************************************************************)
(* PreviewManager: identity of documents                                   *)
(***************************************************************************)
handleUriCase(value) ==
  IF platform = "win32" THEN toLowerCase(value) ELSE value

isSameResource(left, right) == handleUriCase(left) = handleUriCase(right)

getKeyRaw(uri) == uri

getKey(uri) == handleUriCase(uri)

\* the file a uri names: the editor has one document per file
FileOf(uri) == handleUriCase(uri)
Files == Uris

(***************************************************************************)
(* PreviewManager.getDocumentSignature.  The documents of the model are    *)
(* open in the editor: the signature is `open:${version}:${dirty|clean}`   *)
(* and the call completes without suspending.  undefined is the empty      *)
(* tuple.                                                                  *)
(***************************************************************************)
getDocumentSignature(uri) ==
  IF uri = NONE THEN <<>>
  ELSE <<"open", docs[FileOf(uri)].version,
         IF docs[FileOf(uri)].isDirty THEN "dirty" ELSE "clean">>

(***************************************************************************)
(* DiagnosticService (src/src/services/diagnosticService.ts).              *)
(* A message is a sequence of characters.  An absent number (undefined) is *)
(* UNDEF; the code treats an absent and a non-positive line alike.         *)
(***************************************************************************)
UNDEF == -1
\* Number.MAX_SAFE_INTEGER, cut to the integers of the model checker
MAX_SAFE_INTEGER == 2147483647

Digits == <<"0", "1", "2", "3", "4", "5", "6", "7", "8", "9">>
IsDigit(c) == \E i \in 1..10 : Digits[i] = c
DigitValue(c) == (CHOOSE i \in 1..10 : Digits[i] = c) - 1
\* \s of the regular expression, on the characters of the model
IsSpace(c) == c \in {" ", "\t", "\n", "\r"}
\* what . does not match
IsLineTerminator(c) == c \in {"\n", "\r"}

RECURSIVE parseInt(_)
parseInt(ds) ==
  IF Len(ds) = 0 THEN 0
  ELSE parseInt(SubSeq(ds, 1, Len(ds) - 1)) * 10 + DigitValue(ds[Len(ds)])

\* length of the longest run of characters satisfying Test from position i
NotColon(c) == c # ":"

\* the character classes of the regular expression
InClass(class, c) ==
  CASE class = "\\s" -> IsSpace(c)
    [] class = "\\d" -> IsDigit(c)
    [] class = "[^:]" -> NotColon(c)

RECURSIVE RunLength(_, _, _)
RunLength(m, i, class) ==
  IF i > Len(m) \/ ~InClass(class, m[i]) THEN 0
  ELSE 1 + RunLength(m, i + 1, class)

TemplatePrefix == <<"t", "e", "m", "p", "l", "a", "t", "e", ":">>

\* the end of the match,  (.*)$ : rest must hold no line terminator
MatchRest(rest) ==
  IF \E i \in 1..Len(rest) : IsLineTerminator(rest[i]) THEN <<>> ELSE <<rest>>

\* the tail  :\s*(.*)$  from the colon at position p: <<>> when it does not
\* match, else <<group 3>>
MatchTail(m, p) ==
  IF p > Len(m) \/ m[p] # ":" THEN <<>>
  ELSE MatchRest(SubSeq(m, p + 1 + RunLength(m, p + 1, "\\s"), Len(m)))

\* the groups, once both ways to match the tail have been tried: the optional
\* group (?::(\d+))? is greedy, the way with a column comes first
MatchGroups(m, q, n1, n2, withColumn, withoutColumn) ==
  IF withColumn # <<>>
  THEN <<[lineString |-> SubSeq(m, q + 1, q + n1),
          columnString |-> SubSeq(m, q + n1 + 2, q + n1 + 1 + n2),
          remaining |-> withColumn[1]]>>
  ELSE IF withoutColumn # <<>>
  THEN <<[lineString |-> SubSeq(m, q + 1, q + n1),
          columnString |-> <<>>,
          remaining |-> withoutColumn[1]]>>
  ELSE <<>>

\* from the colon at q after the name, with n1 digits of (\d+) after it and
\* n2 digits after the colon that follows them
MatchColumn(m, q, n1, n2) ==
  MatchGroups(m, q, n1, n2,
              IF q + n1 + 1 <= Len(m) /\ m[q + n1 + 1] = ":" /\ n2 >= 1
              THEN MatchTail(m, q + n1 + 2 + n2) ELSE <<>>,
              MatchTail(m, q + n1 + 1))

MatchLine(m, q, n1) ==
  IF n1 < 1 THEN <<>>
  ELSE MatchColumn(m, q, n1, RunLength(m, q + n1 + 2, "\\d"))

\* \s+[^:]+ takes the seg characters up to the next colon: the first of them
\* must be white space and one more must follow it
MatchName(m, seg) ==
  IF seg < 2 \/ ~IsSpace(m[10]) \/ 10 + seg > Len(m) THEN <<>>
  ELSE MatchLine(m, 10 + seg, RunLength(m, 11 + seg, "\\d"))

\* message.match(/^template:\s+[^:]+:(\d+)(?::(\d+))?:\s*(.*)$/) as the
\* backtracking matcher decides it: <<>> for no match, else
\* <<[lineString, columnString, remaining]>> (an unmatched group 2 is <<>>)
MatchTemplateLocation(m) ==
  IF Len(m) < 9 \/ SubSeq(m, 1, 9) # TemplatePrefix THEN <<>>
  ELSE MatchName(m, RunLength(m, 10, "[^:]"))

\* column && !Number.isNaN(column) ? column : undefined
ParsedColumn(columnString) ==
  IF columnString # <<>> /\ parseInt(columnString) # 0
  THEN parseInt(columnString) ELSE UNDEF

ParsedLocation(message, match) ==
  IF match = <<>> THEN <<>>
  ELSE <<[line |-> parseInt(match[1].lineString),
          column |-> ParsedColumn(match[1].columnString),
          message |-> IF match[1].remaining # <<>>
                      THEN match[1].remaining ELSE message]>>

\* DiagnosticService.parseTemplateLocation: <<>> is undefined
parseTemplateLocation(message) ==
  ParsedLocation(message, MatchTemplateLocation(message))

NormalizedRecordOneBased(message, line, column) ==
  [message |-> message,
   range |-> [startLine |-> IF line > 0 THEN line - 1 ELSE 0,
              startCharacter |-> 0,
              endLine |-> IF line > 0 THEN line - 1 ELSE 0,
              endCharacter |-> MAX_SAFE_INTEGER],
   line |-> IF line > 0 THEN line ELSE UNDEF,
   character |-> IF column > 0 THEN column ELSE UNDEF]

\* lines 134-147 of normalizeDiagnostic
NormalizedRecord(message, line, column) ==
  [message |-> message,
   range |-> [startLine |-> IF line > 0 THEN line - 1 ELSE 0,
              startCharacter |-> 0,
              endLine |-> IF line > 0 THEN line - 1 ELSE 0,
              endCharacter |-> MAX_SAFE_INTEGER],
   line |-> IF line > 0 THEN line - 1 ELSE UNDEF,
   character |-> IF column > 0 THEN column - 1 ELSE UNDEF]

\* lines 125-132 of normalizeDiagnostic
NormalizedWith(diagnostic, parsed) ==
  IF parsed # <<>>
  THEN NormalizedRecord(parsed[1].message, parsed[1].line, parsed[1].column)
  ELSE NormalizedRecord(diagnostic.message, diagnostic.line, diagnostic.column)

\* DiagnosticService.normalizeDiagnostic
normalizeDiagnostic(diagnostic) ==
  NormalizedWith(diagnostic,
                 IF diagnostic.line <= 0
                 THEN parseTemplateLocation(diagnostic.message) ELSE <<>>)

\* the diagnostics the engine of the model reports
PrefixedMessage ==
  <<"t", "e", "m", "p", "l", "a", "t", "e", ":", " ", "a", ":", "2", ":", " ",
    "E", "O", "F">>
PlainMessage == <<"b", "a", "d">>

TemplateDiagnostic ==
  [message |-> PrefixedMessage, severity |-> "error", file |-> NONE,
   line |-> UNDEF, column |-> UNDEF]
ContextDiagnostic ==
  [message |-> PlainMessage, severity |-> "warning", file |-> "c.json",
   line |-> 3, column |-> UNDEF]

EngineDiagnostics == {TemplateDiagnostic, ContextDiagnostic}

\* normalizeDiagnostic of the diagnostics the engine of the model reports,
\* computed once
NormalizedDiagnostics ==
  [d \in EngineDiagnostics |-> normalizeDiagnostic(d)]

normalized(diagnostic) ==
  IF diagnostic \in EngineDiagnostics THEN NormalizedDiagnostics[diagnostic]
  ELSE normalizeDiagnostic(diagnostic)

normalizePath(value) ==
  IF platform = "win32" THEN toLowerCase(value) ELSE value

matchesUri(candidate, fileHint) ==
  normalizePath(candidate) = normalizePath(fileHint)

isSameUri(left, right) == normalizePath(left) = normalizePath(right)

\* DiagnosticService.resolveTargetUri; vscode.Uri.file(fileHint) is the hint
resolveTargetUri(templateUri, contextUri, fileHint) ==
  IF fileHint # NONE /\ fileHint # ""
  THEN IF matchesUri(templateUri, fileHint) THEN templateUri
       ELSE IF contextUri # NONE /\ matchesUri(contextUri, fileHint) THEN contextUri
       ELSE fileHint
  ELSE templateUri

\* the vscode.Diagnostic built for one RenderDiagnostic (lines 32-39)
VscodeDiagnosticOf(diagnostic, norm) ==
  [range |-> norm.range,
   message |-> norm.message,
   severity |-> IF diagnostic.severity = "warning" THEN "Warning" ELSE "Error",
   source |-> "go-template-studio"]

VscodeDiagnostic(diagnostic) ==
  VscodeDiagnosticOf(diagnostic, normalized(diagnostic))

\* the PreviewDiagnostic pushed for one RenderDiagnostic (lines 45-51)
sourceTag(targetUri, templateUri) ==
  IF isSameUri(targetUri, templateUri) THEN "template" ELSE "context"

PreviewDiagnosticFrom(diagnostic, norm, targetUri, templateUri) ==
  [message |-> norm.message,
   severity |-> diagnostic.severity,
   line |-> norm.line,
   character |-> norm.character,
   source |-> sourceTag(targetUri, templateUri)]

PreviewDiagnosticOf(templateUri, contextUri, diagnostic) ==
  PreviewDiagnosticFrom(diagnostic, normalized(diagnostic),
                        resolveTargetUri(templateUri, contextUri, diagnostic.file),
                        templateUri)

applyDiagnosticsResultReversed(templateUri, contextUri, diagnostics) ==
  [i \in 1..Len(diagnostics) |->
     PreviewDiagnosticOf(templateUri, contextUri,
                         diagnostics[Len(diagnostics) + 1 - i])]

\* the value applyDiagnostics returns
applyDiagnosticsResult(templateUri, contextUri, diagnostics) ==
  [i \in 1..Len(diagnostics) |->
     PreviewDiagnosticOf(templateUri, contextUri, diagnostics[i])]

\* the entries map of applyDiagnostics: target uri -> its diagnostics in order
RECURSIVE SelectTarget(_, _, _, _)
SelectTarget(templateUri, contextUri, diagnostics, key) ==
  IF diagnostics = <<>> THEN <<>>
  ELSE (IF resolveTargetUri(templateUri, contextUri, Head(diagnostics).file) = key
        THEN <<VscodeDiagnostic(Head(diagnostics))>> ELSE <<>>)
       \o SelectTarget(templateUri, contextUri, Tail(diagnostics), key)

EntryKeys(templateUri, contextUri, diagnostics) ==
  {resolveTargetUri(templateUri, contextUri, diagnostics[i].file) :
     i \in 1..Len(diagnostics)}

\* The DiagnosticCollection keeps its entries under the comparison key of
\* their uri: the editor compares file uris ignoring case where the file
\* system does (win32).
comparisonKey(uri) ==
  IF platform = "win32" THEN toLowerCase(uri) ELSE uri

comparisonKeys(uris) == {comparisonKey(u) : u \in uris}

\* DiagnosticCollection.delete
CollectionDelete(coll, uris) ==
  [k \in DOMAIN coll \ comparisonKeys(uris) |-> coll[k]]

\* lines 62-76: the entries are set, and the template and the context are
\* deleted when no entry names them
CollectionSet(coll, templateUri, contextUri, diagnostics, keys) ==
  CollectionDelete(
    [k \in DOMAIN coll \cup comparisonKeys(keys) |->
       IF k \in comparisonKeys(keys)
       THEN SelectTarget(templateUri, contextUri, diagnostics,
                         CHOOSE uri \in keys : comparisonKey(uri) = k)
       ELSE coll[k]],
    (IF templateUri \notin keys THEN {templateUri} ELSE {}) \cup
    (IF contextUri # NONE /\ contextUri \notin keys THEN {contextUri} ELSE {}))

applyDiagnosticsCollectionTemplateOnly(coll, templateUri, contextUri, diagnostics) ==
  IF Len(diagnostics) = 0
  THEN CollectionDelete(coll, {templateUri})
  ELSE CollectionSet(coll, templateUri, contextUri, diagnostics,
                     EntryKeys(templateUri, contextUri, diagnostics))

applyDiagnosticsCollectionClearAll(coll, templateUri, contextUri, diagnostics) ==
  IF Len(diagnostics) = 0 THEN <<>>
  ELSE CollectionSet(coll, templateUri, contextUri, diagnostics,
                     EntryKeys(templateUri, contextUri, diagnostics))

\* the DiagnosticCollection after applyDiagnostics
applyDiagnosticsCollection(coll, templateUri, contextUri, diagnostics) ==
  IF Len(diagnostics) = 0
  THEN CollectionDelete(coll, {templateUri} \cup
                              (IF contextUri # NONE THEN {contextUri} ELSE {}))
  ELSE CollectionSet(coll, templateUri, contextUri, diagnostics,
                     EntryKeys(templateUri, contextUri, diagnostics))

(***************************************************************************)
(* RendererService.render, as its caller sees it: it returns a             *)
(* RenderResult, with errorMessage set when the engine reported an error,  *)
(* or it throws.  What the engine answers is not decided by this code: the *)
(* outcomes are drawn from a set.                                          *)
(***************************************************************************)
RenderResults ==
  {[kind |-> "result", rendered |-> "A", diagnostics |-> <<>>,
    durationMs |-> 5, errorMessage |-> NONE],
   [kind |-> "result", rendered |-> "B", diagnostics |-> <<ContextDiagnostic>>,
    durationMs |-> 5, errorMessage |-> NONE],
   [kind |-> "result", rendered |-> "", diagnostics |-> <<TemplateDiagnostic>>,
    durationMs |-> 5, errorMessage |-> "parse error"]}

RenderThrows == [kind : {"throw"}, message : {"exited with code 1"}]

RenderOutcomes == RenderResults \cup RenderThrows

(***************************************************************************)
(* PreviewManager: the state                                               *)
(***************************************************************************)
SessionIds == 1..MaxSessions
TimerIds == 1..MaxTimers

Init ==
  /\ platform \in Platforms
  /\ docs = [f \in Files |-> [version |-> 0, isDirty |-> FALSE]]
  /\ sessions = <<>>
  /\ heap = <<>>
  /\ panels = <<>>
  /\ timers = <<>>
  /\ tasks = EmptyBag
  /\ collection = <<>>
  /\ called = <<>>
  /\ posted = <<>>
  /\ rejected = FALSE
  /\ subscribed = TRUE
  /\ events = 0
  /\ request = <<>>
  /\ mapped = <<>>
  /\ RendererIdle
  /\ AssociationsIdle

\* f with x mapped to v
Put(f, x, v) == [y \in DOMAIN f \cup {x} |-> IF y = x THEN v ELSE f[y]]
\* f without the elements of xs
Drop(f, xs) == [y \in DOMAIN f \ xs |-> f[y]]
Range(f) == {f[x] : x \in DOMAIN f}
Min(S) == CHOOSE x \in S : \A y \in S : x <= y

TaskSet == BagToSet(tasks)
WithoutRetried(task) == tasks (+) SetToBag({task})

\* the suspended calls once the call task has gone on from its await
Without(task) == tasks (-) SetToBag({task})

\* the session objects something still refers to: the registry, a suspended
\* renderSession call, or the closure of an armed timer
Referenced(reg, tk, tm) ==
  Range(reg) \cup {t.session : t \in BagToSet(tk)} \cup Range(tm)

\* objects nothing refers to any more are garbage: they leave the model
Collect(f, reg, tk, tm) == Drop(f, DOMAIN f \ Referenced(reg, tk, tm))

(***************************************************************************)
(* PreviewManager.isHtmlTemplate                                           *)
(***************************************************************************)
isHtmlExtension(extension) == extension = ".html" \/ extension = ".htm"

isHtmlTemplate(session) ==
  IF isHtmlExtension(toLowerCase(extname(session.templateUri))) THEN TRUE
  ELSE session.languageId = "html" \/ session.languageId = "gotemplate"

(***************************************************************************)
(* PreviewManager.buildPreviewPayload                                      *)
(***************************************************************************)
useFallbackNever(session, result) == FALSE

useFallback(session, result) ==
  result.errorMessage # NONE /\ session.lastSuccessful # <<>>

buildPreviewPayloadNoError(session, result, diagnostics, isHtml) ==
  [rendered |-> IF useFallback(session, result)
                THEN session.lastSuccessful[1].rendered ELSE result.rendered,
   diagnostics |-> diagnostics,
   isHtml |-> IF useFallback(session, result)
              THEN session.lastSuccessful[1].isHtml ELSE isHtml,
   durationMs |-> result.durationMs,
   isStale |-> useFallback(session, result),
   errorMessage |-> NONE]

buildPreviewPayloadCurrentHtml(session, result, diagnostics, isHtml) ==
  [rendered |-> IF useFallback(session, result)
                THEN session.lastSuccessful[1].rendered ELSE result.rendered,
   diagnostics |-> diagnostics,
   isHtml |-> isHtml,
   durationMs |-> result.durationMs,
   isStale |-> useFallback(session, result),
   errorMessage |-> result.errorMessage]

buildPreviewPayload(session, result, diagnostics, isHtml) ==
  [rendered |-> IF useFallback(session, result)
                THEN session.lastSuccessful[1].rendered ELSE result.rendered,
   diagnostics |-> diagnostics,
   isHtml |-> IF useFallback(session, result)
              THEN session.lastSuccessful[1].isHtml ELSE isHtml,
   durationMs |-> result.durationMs,
   isStale |-> useFallback(session, result),
   errorMessage |-> result.errorMessage]

(***************************************************************************)
(* PreviewManager.ensureWebviewInitialized: the session and its panel      *)
(* after the call                                                          *)
(***************************************************************************)
ensureWebviewInitializedSession(session) ==
  IF session.initialized THEN session
  ELSE [session EXCEPT !.initialized = TRUE, !.messageSubscription = "active"]

ensureWebviewInitializedPanel(session, panel) ==
  IF session.initialized THEN panel ELSE [panel EXCEPT !.html = "base"]

(***************************************************************************)
(* renderSession(session, force) up to the call of rendererService.render  *)
(* (lines 99-111).  Both signatures are there without suspending, so this  *)
(* runs in one piece with the caller: the call returns when nothing        *)
(* changed and it is not forced, and otherwise invokes the engine with the *)
(* session's documents and suspends until the engine has answered.         *)
(* origin names the caller.                                                *)
(***************************************************************************)
skipNever(session, force) == FALSE

skipIgnoringForce(session, force) ==
  /\ getDocumentSignature(session.templateUri) = session.templateSignature
  /\ getDocumentSignature(session.contextUri) = session.contextSignature

skip(session, force) ==
  /\ ~force
  /\ getDocumentSignature(session.templateUri) = session.templateSignature
  /\ getDocumentSignature(session.contextUri) = session.contextSignature

\* the suspended call: the signatures it computed and the documents it handed
\* to the engine
RenderCall(session, sid, force, origin) ==
  [session |-> sid, force |-> force, origin |-> origin,
   templateSignature |-> getDocumentSignature(session.templateUri),
   contextSignature |-> getDocumentSignature(session.contextUri),
   templateArg |-> session.templateUri, contextArg |-> session.contextUri]

\* the suspended calls after renderSession(session, force) was called
renderSession(tk, session, sid, force, origin) ==
  IF skip(session, force) THEN tk
  ELSE tk (+) SetToBag({RenderCall(session, sid, force, origin)})

\* what the call did: whether it went on to invoke the engine
renderSessionCall(session, sid, force, origin) ==
  [session |-> sid, force |-> force, origin |-> origin,
   invoked |-> ~skip(session, force)]

\* a step that calls renderSession on session object sid: before is the
\* session as the caller left it, session the same with its webview
\* initialized, panel its panel, reg and tm the registry and the armed timers
\* after the step
CallRenderSession(sid, before, session, panel, force, origin, reg, tm) ==
  /\ BagCardinality(tasks) < MaxInFlight
  /\ tasks' = renderSession(tasks, session, sid, force, origin)
  /\ called' = <<renderSessionCall(session, sid, force, origin)>>
  /\ heap' = Collect(Put(heap, sid, session), reg, tasks', tm)
  /\ panels' = Collect(Put(panels, session.panel,
                           ensureWebviewInitializedPanel(before, panel)),
                       reg, tasks', tm)
  /\ posted' = <<>>
  /\ rejected' = FALSE

(***************************************************************************)
(* PreviewManager.scheduleRender                                           *)
(***************************************************************************)
noClearTimeout(tm, handle) == tm

\* clearTimeout(handle): a handle that is not armed is left alone
clearTimeout(tm, handle) == Drop(tm, {handle})

\* the handle setTimeout returns for session sid: one no armed timer and no
\* other session object holds; 0 when the model has run out of handles
FreeTimers(h, tm, sid) ==
  TimerIds \ (DOMAIN tm \cup {h[x].renderTimer : x \in DOMAIN h \ {sid}})

FreshTimer(h, tm, sid) ==
  IF FreeTimers(h, tm, sid) = {} THEN 0 ELSE Min(FreeTimers(h, tm, sid))

\* session.renderTimer = setTimeout(...) (lines 282-285)
setTimer(st, sid, cleared, handle) ==
  IF handle = 0 THEN [st EXCEPT !.ok = FALSE]
  ELSE [heap |-> [st.heap EXCEPT ![sid].renderTimer = handle],
        timers |-> Put(cleared, handle, sid),
        ok |-> st.ok]

clearRenderTimerNever(h, tm, sid) == tm

\* lines 278-280
clearRenderTimer(h, tm, sid) ==
  IF h[sid].renderTimer # 0 THEN clearTimeout(tm, h[sid].renderTimer) ELSE tm

rearm(st, sid, cleared) ==
  setTimer(st, sid, cleared, FreshTimer(st.heap, cleared, sid))

\* [heap, timers, ok] after scheduleRender(session sid); ok is false when the
\* model has run out of handles
scheduleRender(st, sid) ==
  rearm(st, sid, clearRenderTimer(st.heap, st.timers, sid))

\* the test of the loop body of handleSavedDocument and handleChangedDocument
\* (lines 170-177, 290-297): the document is the session's template or context
watches(session, uri) ==
  \/ isSameResource(uri, session.templateUri)
  \/ /\ session.contextUri # NONE
     /\ isSameResource(uri, session.contextUri)

MatchesFirstOnly(h, reg, uri) ==
  {sid \in Range(reg) :
     /\ watches(h[sid], uri)
     /\ \A other \in Range(reg) : watches(h[other], uri) => sid <= other}

\* the sessions a notification for document uri is routed to
Matches(h, reg, uri) == {sid \in Range(reg) : watches(h[sid], uri)}

\* scheduleRender for every session of the set, one after the other
RECURSIVE scheduleAll(_, _)
scheduleAll(st, sids) ==
  IF sids = {} THEN st
  ELSE scheduleAll(scheduleRender(st, Min(sids)), sids \ {Min(sids)})

\* PreviewManager.handleChangedDocument, handleSavedDocument
handleDocument(uri) ==
  scheduleAll([heap |-> heap, timers |-> timers, ok |-> TRUE],
              Matches(heap, sessions, uri))

\* the step of a notification: st is what its handler left
Notified(st) ==
  /\ st.ok
  /\ heap' = st.heap
  /\ timers' = st.timers
  /\ events < MaxEvents
  /\ events' = events + 1
  /\ called' = <<>>
  /\ posted' = <<>>
  /\ rejected' = FALSE
  /\ UNCHANGED <<associationVars, rendererVars, request, mapped, platform, sessions, panels, tasks, collection, subscribed>>

\* onDidChangeTextDocument: the document was edited
ChangeDocument(uri) ==
  /\ subscribed
  /\ docs[FileOf(uri)].version < MaxVersion
  /\ docs' = [docs EXCEPT ![FileOf(uri)] =
                [version |-> @.version + 1, isDirty |-> TRUE]]
  /\ Notified(handleDocument(uri))

\* onDidSaveTextDocument: the document was written to disk
SaveDocument(uri) ==
  /\ subscribed
  /\ docs' = [docs EXCEPT ![FileOf(uri)].isDirty = FALSE]
  /\ Notified(handleDocument(uri))

(***************************************************************************)
(* PreviewManager.showPreview.  Its last statement, panel.reveal, changes  *)
(* nothing the model holds.                                                *)
(***************************************************************************)
\* lines 60-67
NewSession(key, templateUri, contextUri, languageId, panel) ==
  [templateKey |-> key, templateUri |-> templateUri, contextUri |-> contextUri,
   panel |-> panel, languageId |-> languageId, initialized |-> FALSE,
   templateSignature |-> <<>>, contextSignature |-> <<>>, renderTimer |-> 0,
   messageSubscription |-> "none", lastSuccessful |-> <<>>]

\* vscode.window.createWebviewPanel
\* errorBanner: the webview shows its error banner (aria-hidden is "false")
NewPanel == [disposed |-> FALSE, html |-> "", errorBanner |-> FALSE]

\* lines 78-80
reuseSession(session, templateUri, contextUri, languageId) ==
  [session EXCEPT !.templateUri = templateUri, !.contextUri = contextUri,
                  !.languageId = languageId]

\* this.sessions.get(key): 0 is undefined
sessionsGet(key) == IF key \in DOMAIN sessions THEN sessions[key] ELSE 0

\* the branch of line 52: a new session and panel, with object id sid
showPreviewNew(key, sid, created) ==
  /\ sessions' = Put(sessions, key, sid)
  /\ CallRenderSession(sid, created, ensureWebviewInitializedSession(created),
                       NewPanel, TRUE, "open", sessions', timers)

\* the branch of line 77: the session found is reused
showPreviewReuse(found, updated) ==
  /\ sessions' = sessions
  /\ CallRenderSession(found, updated, ensureWebviewInitializedSession(updated),
                       panels[updated.panel], TRUE, "open", sessions, timers)

showPreviewWith(templateUri, contextUri, languageId, key, found) ==
  IF found = 0
  THEN /\ SessionIds \ DOMAIN heap # {}
       /\ showPreviewNew(key, Min(SessionIds \ DOMAIN heap),
                         NewSession(key, templateUri, contextUri, languageId,
                                    Min(SessionIds \ DOMAIN heap)))
  ELSE showPreviewReuse(found, reuseSession(heap[found], templateUri,
                                            contextUri, languageId))

ShowPreview(templateUri, contextUri, languageId) ==
  /\ subscribed
  /\ events < MaxEvents
  /\ events' = events + 1
  /\ showPreviewWith(templateUri, contextUri, languageId, getKey(templateUri),
                     sessionsGet(getKey(templateUri)))
  /\ UNCHANGED <<associationVars, rendererVars, request, mapped, platform, docs, timers, collection, subscribed>>

(***************************************************************************)
(* PreviewManager.updateContext                                            *)
(***************************************************************************)
withContextKept(session, contextUri) == session

\* session.contextUri = contextUri (line 94)
withContext(session, contextUri) == [session EXCEPT !.contextUri = contextUri]

updateContextWith(found, updated) ==
  CallRenderSession(found, updated, ensureWebviewInitializedSession(updated),
                    panels[updated.panel], TRUE, "update", sessions, timers)

updateContextOfPosting(contextUri, found) ==
  IF found = 0
  THEN /\ called' = <<>>
       /\ posted' = <<[type |-> "error", panel |-> 0,
                       payload |-> [message |-> "no preview"]]>>
       /\ rejected' = FALSE
       /\ UNCHANGED <<heap, panels, tasks>>
  ELSE updateContextWith(found, withContext(heap[found], contextUri))

\* lines 88-95
updateContextOf(contextUri, found) ==
  IF found = 0
  THEN /\ called' = <<>>
       /\ posted' = <<>>
       /\ rejected' = FALSE
       /\ UNCHANGED <<heap, panels, tasks>>
  ELSE updateContextWith(found, withContext(heap[found], contextUri))

UpdateContext(templateUri, contextUri) ==
  /\ subscribed
  /\ events < MaxEvents
  /\ events' = events + 1
  /\ updateContextOf(contextUri, sessionsGet(getKey(templateUri)))
  /\ UNCHANGED <<associationVars, rendererVars, request, mapped, platform, docs, sessions, timers, collection, subscribed>>

(***************************************************************************)
(* The callback scheduleRender hands to setTimeout (lines 282-285)         *)
(***************************************************************************)
timerKept(session) == session

\* session.renderTimer = undefined (line 283)
timerCleared(session) == [session EXCEPT !.renderTimer = 0]

timerCallback(sid, cleared) ==
  CallRenderSession(sid, cleared, ensureWebviewInitializedSession(cleared),
                    panels[cleared.panel], FALSE, "timer", sessions, timers')

TimerFire(handle) ==
  /\ handle \in DOMAIN timers
  /\ timers' = Drop(timers, {handle})
  /\ timerCallback(timers[handle], timerCleared(heap[timers[handle]]))
  /\ UNCHANGED <<associationVars, rendererVars, request, mapped, platform, docs, sessions, collection, subscribed, events>>

(***************************************************************************)
(* session.panel.webview.postMessage(message).  The webview getter of a    *)
(* disposed WebviewPanel throws ("Webview is disposed"), so on a disposed  *)
(* panel the call raises instead of delivering.                            *)
(***************************************************************************)
postThrows(panel) == panel.disposed

(***************************************************************************)
(* renderSession from the engine's answer on (lines 111-165).              *)
(***************************************************************************)
recordSignaturesOnly(session, task, result) ==
  [session EXCEPT !.templateSignature = task.templateSignature,
                  !.contextSignature = task.contextSignature]

recordLastSuccessfulOnly(session, task, result) ==
  [session EXCEPT !.lastSuccessful =
                     IF result.errorMessage = NONE
                     THEN <<[rendered |-> result.rendered,
                             isHtml |-> isHtmlTemplate(session)]>>
                     ELSE @]

recordResultAlways(session, task, result) ==
  [session EXCEPT !.templateSignature = task.templateSignature,
                  !.contextSignature = task.contextSignature,
                  !.lastSuccessful =
                     <<[rendered |-> result.rendered,
                        isHtml |-> isHtmlTemplate(session)]>>]

\* the session after lines 118-127
recordResult(session, task, result) ==
  [session EXCEPT !.templateSignature = task.templateSignature,
                  !.contextSignature = task.contextSignature,
                  !.lastSuccessful =
                     IF result.errorMessage = NONE
                     THEN <<[rendered |-> result.rendered,
                             isHtml |-> isHtmlTemplate(session)]>>
                     ELSE @]

\* the message of lines 129-133; recorded is the session after lines 118-127
renderMessage(recorded, result) ==
  [type |-> "render",
   panel |-> recorded.panel,
   payload |-> buildPreviewPayload(
                 recorded, result,
                 applyDiagnosticsResult(recorded.templateUri, recorded.contextUri,
                                        result.diagnostics),
                 isHtmlTemplate(recorded))]

\* the message of the catch block, lines 159-164
errorMessageOf(session, message) ==
  [type |-> "error", panel |-> session.panel, payload |-> [message |-> message]]

catchBlockKeepDiagnostics(coll, session, panel, message) ==
  [session |-> session,
   collection |-> coll,
   posted |-> IF postThrows(panel) THEN <<>>
              ELSE <<errorMessageOf(session, message)>>,
   rejected |-> postThrows(panel)]

\* the catch block (lines 155-165): the diagnostics of the session's documents
\* are cleared and an error message is posted; when that raises as well, the
\* promise of renderSession is rejected
catchBlock(coll, session, panel, message) ==
  [session |-> session,
   collection |-> applyDiagnosticsCollection(coll, session.templateUri,
                                              session.contextUri, <<>>),
   posted |-> IF postThrows(panel) THEN <<>>
              ELSE <<errorMessageOf(session, message)>>,
   rejected |-> postThrows(panel)]

\* lines 129-133, after the diagnostics were applied and the result recorded
postRender(panel, outcome, recorded, applied) ==
  IF postThrows(panel)
  THEN catchBlock(applied, recorded, panel, "Webview is disposed")
  ELSE [session |-> recorded, collection |-> applied,
        posted |-> <<renderMessage(recorded, outcome)>>, rejected |-> FALSE]

\* [session, collection, posted, rejected] after the engine answered the call
completion(task, outcome, session, panel) ==
  IF outcome.kind = "throw"
  THEN catchBlock(collection, session, panel, outcome.message)
  ELSE postRender(panel, outcome, recordResult(session, task, outcome),
                  applyDiagnosticsCollection(collection, session.templateUri,
                                             session.contextUri,
                                             outcome.diagnostics))

\* the webview's handler of a message (renderPreview, renderError): the error
\* banner is shown for an error message and for a render payload with an
\* errorMessage, and hidden otherwise
receive(panel, message) ==
  [panel EXCEPT !.errorBanner =
     IF message.type = "error" THEN TRUE
     ELSE message.payload.errorMessage # NONE]

\* the panels after the messages posted were delivered
deliver(pn, messages) ==
  IF messages = <<>> THEN pn
  ELSE [pn EXCEPT ![messages[1].panel] = receive(@, messages[1])]

Completed(task, done) ==
  /\ tasks' = Without(task)
  /\ collection' = done.collection
  /\ called' = <<>>
  /\ posted' = done.posted
  /\ rejected' = done.rejected
  /\ heap' = Collect([heap EXCEPT ![task.session] = done.session],
                     sessions, tasks', timers)
  /\ panels' = Collect(deliver(panels, done.posted), sessions, tasks', timers)

RenderComplete(task, outcome) ==
  /\ task \in TaskSet
  /\ Completed(task, completion(task, outcome, heap[task.session],
                                panels[heap[task.session].panel]))
  /\ UNCHANGED <<associationVars, rendererVars, request, mapped, platform, docs, sessions, timers, subscribed, events>>

(***************************************************************************)
(* The panel.onDidDispose handler of showPreview (lines 70-76), run when   *)
(* the user closes the panel or the panel is disposed.                     *)
(***************************************************************************)
onDidDisposeKeepSession(st, sid) ==
  [sessions |-> st.sessions,
   timers |-> clearRenderTimer(st.heap, st.timers, sid),
   heap |-> [st.heap EXCEPT ![sid].messageSubscription =
                              IF @ = "active" THEN "disposed" ELSE @],
   panels |-> [st.panels EXCEPT ![st.heap[sid].panel].disposed = TRUE]]

onDidDisposeKeepTimer(st, sid) ==
  [sessions |-> Drop(st.sessions, {st.heap[sid].templateKey}),
   timers |-> st.timers,
   heap |-> [st.heap EXCEPT ![sid].messageSubscription =
                              IF @ = "active" THEN "disposed" ELSE @],
   panels |-> [st.panels EXCEPT ![st.heap[sid].panel].disposed = TRUE]]

\* [sessions, timers, heap, panels] after the panel of session sid is disposed
onDidDispose(st, sid) ==
  [sessions |-> Drop(st.sessions, {st.heap[sid].templateKey}),
   timers |-> clearRenderTimer(st.heap, st.timers, sid),
   heap |-> [st.heap EXCEPT ![sid].messageSubscription =
                              IF @ = "active" THEN "disposed" ELSE @],
   panels |-> [st.panels EXCEPT ![st.heap[sid].panel].disposed = TRUE]]

Current == [sessions |-> sessions, timers |-> timers, heap |-> heap,
            panels |-> panels]

\* the step of a disposal: st is what the handlers left, reg the registry
Disposed(st, reg) ==
  /\ sessions' = reg
  /\ timers' = st.timers
  /\ heap' = Collect(st.heap, reg, tasks, st.timers)
  /\ panels' = Collect(st.panels, reg, tasks, st.timers)
  /\ events < MaxEvents
  /\ events' = events + 1
  /\ called' = <<>>
  /\ posted' = <<>>
  /\ rejected' = FALSE
  /\ UNCHANGED <<associationVars, rendererVars, request, mapped, platform, docs, tasks, collection>>

\* the user closes the panel of session object sid
disposePanel(st) == Disposed(st, st.sessions)

DisposePanel(sid) ==
  /\ sid \in DOMAIN heap
  /\ ~panels[heap[sid].panel].disposed
  /\ disposePanel(onDidDispose(Current, sid))
  /\ UNCHANGED subscribed

(***************************************************************************)
(* PreviewManager.dispose                                                  *)
(***************************************************************************)
\* lines 37-39: panel.dispose() for every session
RECURSIVE disposeAll(_, _)
disposeAll(st, sids) ==
  IF sids = {} THEN st
  ELSE disposeAll(onDidDispose(st, Min(sids)), sids \ {Min(sids)})

\* line 40, this.sessions.clear(), and line 41
Dispose ==
  /\ subscribed
  /\ Disposed(disposeAll(Current, Range(sessions)), <<>>)
  /\ subscribed' = FALSE

Next ==
  \/ \E u \in TemplateUris, c \in OptContextUris, l \in LanguageIds :
       ShowPreview(u, c, l)
  \/ \E u \in TemplateUris, c \in OptContextUris : UpdateContext(u, c)
  \/ \E u \in Uris : ChangeDocument(u)
  \/ \E u \in Uris : SaveDocument(u)
  \/ \E t \in TimerIds : TimerFire(t)
  \/ \E task \in TaskSet, outcome \in RenderOutcomes : RenderComplete(task, outcome)
  \/ \E sid \in SessionIds : DisposePanel(sid)
  \/ Dispose

Spec == Init /\ [][Next]_vars

(***************************************************************************)
(* A workspace with one template and two context documents, for what       *)
(* updateContext does to a session whose context is replaced by another    *)
(* document.  The context document c.json may have been edited before the  *)
(* extension is activated.                                                 *)
(***************************************************************************)
SwapTemplateUris == {"a.tmpl"}
SwapContextUris == {"c.json", "d.json"}
SwapUris == SwapTemplateUris \cup SwapContextUris

SwapInit ==
  /\ platform = "linux"
  /\ \E edited \in BOOLEAN :
       docs = [f \in SwapUris |->
                 IF edited /\ f = "c.json"
                 THEN [version |-> 1, isDirty |-> TRUE]
                 ELSE [version |-> 0, isDirty |-> FALSE]]
  /\ sessions = <<>>
  /\ heap = <<>>
  /\ panels = <<>>
  /\ timers = <<>>
  /\ tasks = EmptyBag
  /\ collection = <<>>
  /\ called = <<>>
  /\ posted = <<>>
  /\ rejected = FALSE
  /\ subscribed = TRUE
  /\ events = 0
  /\ request = <<>>
  /\ mapped = <<>>
  /\ RendererIdle
  /\ AssociationsIdle

SwapNext ==
  \/ \E u \in SwapTemplateUris, c \in SwapContextUris \cup {NONE} :
       ShowPreview(u, c, "gotemplate")
  \/ \E u \in SwapTemplateUris, c \in SwapContextUris \cup {NONE} :
       UpdateContext(u, c)
  \/ \E u \in SwapUris : ChangeDocument(u)
  \/ \E u \in SwapUris : SaveDocument(u)
  \/ \E t \in TimerIds : TimerFire(t)
  \/ \E task \in TaskSet, outcome \in RenderOutcomes : RenderComplete(task, outcome)
  \/ \E sid \in SessionIds : DisposePanel(sid)
  \/ Dispose

SwapSpec == SwapInit /\ [][SwapNext]_vars

(***************************************************************************)
(* DiagnosticService.applyDiagnostics on its own: the arguments of one     *)
(* call are drawn from the sets below and the call is applied to an empty  *)
(* DiagnosticCollection.  A message of the shape                           *)
(*   template: <name>:<N>[:<M>]: <rest>                                    *)
(* is put together from its parts.                                         *)
(***************************************************************************)
ShapeName == <<"a">>
\* the digits of N
LineStrings == {<<"2">>, <<"0">>, <<"1", "2">>}
\* the digits of M; <<>> when the message gives no column
ColumnStrings == {<<>>, <<"3">>, <<"0">>}
Rests ==
  {<<"E", "O", "F">>, <<>>, <<"E", "\n", "F">>, <<"x", ":", " ", "y">>,
   <<" ", "E">>}

Shaped(n, m, rest) ==
  TemplatePrefix \o <<" ">> \o ShapeName \o <<":">> \o n
    \o (IF m = <<>> THEN <<>> ELSE <<":">> \o m) \o <<":", " ">> \o rest

ShapedMessages ==
  {Shaped(n, m, rest) : n \in LineStrings, m \in ColumnStrings, rest \in Rests}

\* RenderDiagnostic.file: absent, empty, the template, the context, another file
FileHints == {NONE, "", "a.tmpl", "c.json", "x.txt"}

RenderDiagnostics ==
  [message : ShapedMessages \cup {PlainMessage},
   severity : {"error", "warning"},
   file : FileHints,
   line : {UNDEF, 0, 3},
   column : {UNDEF, 2}]

\* the lists of diagnostics of a call: none, one, or one next to one of the
\* diagnostics the engine of the model reports
DiagnosticLists ==
  {<<>>} \cup {<<d>> : d \in RenderDiagnostics}
         \cup {<<d, e>> : d \in RenderDiagnostics, e \in EngineDiagnostics}
         \cup {<<e, d>> : d \in RenderDiagnostics, e \in EngineDiagnostics}

DiagInit ==
  /\ platform \in Platforms
  /\ \E t \in TemplateUris, c \in OptContextUris, ds \in DiagnosticLists :
       request = <<[templateUri |-> t, contextUri |-> c, diagnostics |-> ds]>>
  /\ mapped = <<>>
  /\ RendererIdle
  /\ AssociationsIdle
  /\ docs = [f \in Files |-> [version |-> 0, isDirty |-> FALSE]]
  /\ sessions = <<>>
  /\ heap = <<>>
  /\ panels = <<>>
  /\ timers = <<>>
  /\ tasks = EmptyBag
  /\ collection = <<>>
  /\ called = <<>>
  /\ posted = <<>>
  /\ rejected = FALSE
  /\ subscribed = TRUE
  /\ events = 0

\* DiagnosticService.applyDiagnostics(templateUri, contextUri, diagnostics)
ApplyDiagnostics ==
  /\ request # <<>>
  /\ mapped = <<>>
  /\ mapped' = <<applyDiagnosticsResult(request[1].templateUri,
                                        request[1].contextUri,
                                        request[1].diagnostics)>>
  /\ collection' = applyDiagnosticsCollection(collection,
                                              request[1].templateUri,
                                              request[1].contextUri,
                                              request[1].diagnostics)
  /\ UNCHANGED <<associationVars, rendererVars, request, platform, docs, sessions, heap,
                 panels, timers, tasks, called, posted, rejected, subscribed,
                 events>>

DiagNext == ApplyDiagnostics

DiagSpec == DiagInit /\ [][DiagNext]_vars

(***************************************************************************)
(* RendererService (src/unnamed/part_006): one call of render(template,    *)
(* contextFile), followed from its first statement to its settlement.  The *)
(* file system and the spawned process are not decided by this code: which *)
(* file system call fails, what the process writes and how it exits are    *)
(* drawn from sets.                                                        *)
(***************************************************************************)
MaxTempDirs == 2
TempDirIds == 1..MaxTempDirs
FsOutcomes == {"ok", "mkdtemp fails", "writeFile fails"}
RendererModes == {"auto", "bundled", "system"}
ExitCodes == {0, 1}

\* the variables the RendererService does not touch
managerVars == <<platform, docs, sessions, heap, panels, timers, tasks,
                 collection, called, posted, rejected, subscribed, events,
                 request, mapped, associations, history>>

\* the open documents: any of the uris, clean or dirty; where file names are
\* compared ignoring case the editor has one document per file
OpenSets ==
  {S \in SUBSET Uris :
     \A u, v \in S : handleUriCase(u) = handleUriCase(v) => u = v}

\* document.getText()
getText(uri) == <<"text in memory of", uri>>

\* line 191-192: the document with exactly this uri, when it is dirty
isDirtyDocument(uri) ==
  uri \in DOMAIN textDocuments /\ textDocuments[uri].isDirty

\* lines 193-198 and 205-216: the two kinds of FileSnapshot; directory 0
\* stands for the no-op dispose
diskSnapshot(uri) ==
  [fsPath |-> [kind |-> "disk", uri |-> uri, directory |-> 0], directory |-> 0]
tempSnapshot(uri, d) ==
  [fsPath |-> [kind |-> "temp", uri |-> uri, directory |-> d], directory |-> d]

\* fs.mkdtemp makes a directory that did not exist
FreshDir(td) == Min(TempDirIds \ DOMAIN td)

\* RendererService.createSnapshot(uri) on the directories td: whether it
\* threw, the snapshot it returned, and the directories after it
createSnapshot(uri, fsOutcome, td) ==
  IF ~isDirtyDocument(uri)
  THEN [threw |-> FALSE, snapshot |-> <<diskSnapshot(uri)>>, tempDirs |-> td]
  ELSE IF fsOutcome = "mkdtemp fails"
  THEN [threw |-> TRUE, snapshot |-> <<>>, tempDirs |-> td]
  ELSE IF fsOutcome = "writeFile fails"
  THEN [threw |-> TRUE, snapshot |-> <<>>,
        tempDirs |-> Put(td, FreshDir(td), <<>>)]
  ELSE [threw |-> FALSE, snapshot |-> <<tempSnapshot(uri, FreshDir(td))>>,
        tempDirs |-> Put(td, FreshDir(td),
                         <<[name |-> uri, text |-> getText(uri)]>>)]

\* an Error and the rejection of render with it
Failed(text, detail) == [error |-> text, with |-> detail]
thrown(reason) == [kind |-> "throw", message |-> reason]

\* the frame once render has settled with outcome
settledWith(frame, outcome) ==
  [frame EXCEPT !.pc = "settled", !.outcome = <<outcome>>]

\* line 131: createSnapshot(template) is outside the try statement
templateSnapshotTaken(r) ==
  /\ tempDirs' = r.tempDirs
  /\ call' = IF r.threw
             THEN settledWith(call, thrown(Failed("createSnapshot", <<>>)))
             ELSE [call EXCEPT !.templateSnapshot = r.snapshot,
                               !.pc = IF call.contextFile # NONE
                                      THEN "context" ELSE "resolve"]
  /\ UNCHANGED <<managerVars, textDocuments, child>>

SnapshotTemplate(fsOutcome) ==
  /\ call.pc = "template"
  /\ templateSnapshotTaken(createSnapshot(call.template, fsOutcome, tempDirs))

\* line 132: createSnapshot(contextFile) is outside the try statement too
contextSnapshotTaken(r) ==
  /\ tempDirs' = r.tempDirs
  /\ call' = IF r.threw
             THEN settledWith(call, thrown(Failed("createSnapshot", <<>>)))
             ELSE [call EXCEPT !.contextSnapshot = r.snapshot,
                               !.pc = "resolve"]
  /\ UNCHANGED <<managerVars, textDocuments, child>>

SnapshotContext(fsOutcome) ==
  /\ call.pc = "context"
  /\ contextSnapshotTaken(createSnapshot(call.contextFile, fsOutcome, tempDirs))

\* resolveRendererCommand (lines 155-188): the command and its arguments
needsBundled(rendererMode) == rendererMode = "bundled"

preferBundledAlways(rendererMode, bundledBinary) == TRUE

\* line 165; bundledBinary is whether getBundledWorkerPath found the worker
preferBundled(rendererMode, bundledBinary) ==
  IF rendererMode = "auto" THEN bundledBinary ELSE rendererMode = "bundled"

rendererCommand(rendererMode, bundledBinary) ==
  [command |-> IF preferBundled(rendererMode, bundledBinary) /\ bundledBinary
               THEN "bundledBinary" ELSE "goBinary",
   mode |-> IF preferBundled(rendererMode, bundledBinary) /\ bundledBinary
            THEN "bundled" ELSE "system",
   template |-> call.templateSnapshot[1].fsPath,
   context |-> IF call.contextSnapshot = <<>> THEN <<>>
               ELSE <<call.contextSnapshot[1].fsPath>>]

\* the promise of spawnProcess
pendingPromise == [state |-> "pending"]
resolved(value) == [state |-> "resolved", value |-> value]
rejectedWith(reason) == [state |-> "rejected", reason |-> reason]

settleAgain(promise, settlement) == settlement

\* resolve(...) and reject(...) of a promise: a settled promise stays as it is
settle(promise, settlement) ==
  IF promise.state = "pending" THEN settlement ELSE promise

\* lines 135-141: the command is resolved, which throws when the bundled
\* renderer is required and missing, and the process is spawned
ResolveCommand(rendererMode, bundledBinary) ==
  /\ call.pc = "resolve"
  /\ IF needsBundled(rendererMode) /\ ~bundledBinary
     THEN /\ call' = [call EXCEPT
                        !.pc = "finally",
                        !.pending = <<thrown(Failed("Bundled Go renderer is required but not available", <<>>))>>]
          /\ child' = child
     ELSE /\ call' = [call EXCEPT
                        !.pc = "spawned",
                        !.args = <<rendererCommand(rendererMode, bundledBinary)>>,
                        !.spawns = @ + 1]
          /\ child' = <<[closed |-> FALSE, errored |-> FALSE,
                         stdout |-> [kind |-> "empty"],
                         promise |-> pendingPromise]>>
  /\ UNCHANGED <<managerVars, textDocuments, tempDirs>>

\* the responses the worker of the model writes (go-worker/main.go): absent
\* fields are empty sequences
OkResponse ==
  [rendered |-> <<"A">>, diagnostics |-> <<>>, durationMs |-> <<5>>,
   error |-> <<>>]
ErrorResponse ==
  [rendered |-> <<>>, diagnostics |-> <<<<TemplateDiagnostic>>>>,
   durationMs |-> <<5>>, error |-> <<"parse error">>]
WorkerResponses == {OkResponse, ErrorResponse}

\* what a process can have written to its standard output: an encoded
\* response, text that is not JSON, or nothing
encode(response) == [kind |-> "json", value |-> response]
Stdouts ==
  {encode(r) : r \in WorkerResponses} \cup {[kind |-> "garbage"], [kind |-> "empty"]}

\* JSON.parse(stdout): <<>> when it throws
JSONparse(stdout) == IF stdout.kind = "json" THEN <<stdout.value>> ELSE <<>>

\* main of go-worker/main.go (lines 33-51): what it writes and how it exits
\* once execute has returned resp; encodes is whether Encode succeeded
main(resp, encodes) ==
  IF encodes THEN [code |-> 0, stdout |-> encode(resp)]
  ELSE [code |-> 1, stdout |-> [kind |-> "empty"]]

onCloseParseFirst(code, stdout) ==
  IF JSONparse(stdout) # <<>> THEN resolved(JSONparse(stdout)[1])
  ELSE rejectedWith(Failed("Failed to parse renderer response", <<stdout>>))

\* the handler of the close event (lines 289-301)
onClose(code, stdout) ==
  IF code # 0
  THEN rejectedWith(Failed("Go renderer exited with code", <<code>>))
  ELSE IF JSONparse(stdout) # <<>> THEN resolved(JSONparse(stdout)[1])
  ELSE rejectedWith(Failed("Failed to parse renderer response", <<stdout>>))

\* the error event of the child process (lines 285-287)
ChildError ==
  /\ child # <<>>
  /\ ~child[1].closed
  /\ ~child[1].errored
  /\ child' = <<[child[1] EXCEPT
                   !.errored = TRUE,
                   !.promise = settle(@, rejectedWith(
                                  Failed("Failed to execute Go renderer", <<>>)))]>>
  /\ UNCHANGED <<managerVars, textDocuments, call, tempDirs>>

\* the close event of the child process, the last event of a process; the
\* data events before it have filled stdout (lines 277-279)
ChildClose(code, stdout) ==
  /\ child # <<>>
  /\ ~child[1].closed
  /\ child' = <<[child[1] EXCEPT
                   !.closed = TRUE,
                   !.stdout = stdout,
                   !.promise = settle(@, onClose(code, stdout))]>>
  /\ UNCHANGED <<managerVars, textDocuments, call, tempDirs>>

\* response.x ?? d
orElse(optional, default) == IF optional = <<>> THEN default ELSE optional[1]

\* lines 143-148: the RenderResult of a response
resultOf(response) ==
  [kind |-> "result",
   rendered |-> orElse(response.rendered, ""),
   diagnostics |-> orElse(response.diagnostics, <<>>),
   durationMs |-> orElse(response.durationMs, 0),
   errorMessage |-> orElse(response.error, NONE)]

\* what render is about to settle with once spawnProcess has settled
afterSpawn(promise) ==
  IF promise.state = "resolved" THEN resultOf(promise.value)
  ELSE thrown(promise.reason)

\* line 141 resumes: the await returns the response or throws
AwaitSpawn ==
  /\ call.pc = "spawned"
  /\ child[1].promise.state # "pending"
  /\ call' = [call EXCEPT !.pc = "finally",
                          !.pending = <<afterSpawn(child[1].promise)>>]
  /\ UNCHANGED <<managerVars, textDocuments, tempDirs, child>>

\* the directories the snapshots of the frame dispose of
snapshotDirs(frame) ==
  {snap.directory : snap \in Range(frame.templateSnapshot) \cup
                             Range(frame.contextSnapshot)} \ {0}

\* the finally block (lines 149-152), then render settles
Finally ==
  /\ call.pc = "finally"
  /\ tempDirs' = Drop(tempDirs, snapshotDirs(call))
  /\ call' = settledWith(call, call.pending[1])
  /\ UNCHANGED <<managerVars, textDocuments, child>>

RenderInit ==
  /\ platform \in Platforms
  /\ textDocuments \in UNION {[S -> [isDirty : BOOLEAN]] : S \in OpenSets}
  /\ \E t \in TemplateUris, c \in OptContextUris :
       call = [pc |-> "template", template |-> t, contextFile |-> c,
               templateSnapshot |-> <<>>, contextSnapshot |-> <<>>,
               args |-> <<>>, spawns |-> 0, pending |-> <<>>, outcome |-> <<>>]
  /\ tempDirs = <<>>
  /\ child = <<>>
  /\ request = <<>>
  /\ mapped = <<>>
  /\ docs = [f \in Files |-> [version |-> 0, isDirty |-> FALSE]]
  /\ sessions = <<>>
  /\ heap = <<>>
  /\ panels = <<>>
  /\ timers = <<>>
  /\ tasks = EmptyBag
  /\ collection = <<>>
  /\ called = <<>>
  /\ posted = <<>>
  /\ rejected = FALSE
  /\ subscribed = TRUE
  /\ events = 0
  /\ AssociationsIdle

RenderNext ==
  \/ \E fsOutcome \in FsOutcomes : SnapshotTemplate(fsOutcome)
  \/ \E fsOutcome \in FsOutcomes : SnapshotContext(fsOutcome)
  \/ \E m \in RendererModes, b \in BOOLEAN : ResolveCommand(m, b)
  \/ ChildError
  \/ \E code \in ExitCodes, stdout \in Stdouts : ChildClose(code, stdout)
  \/ AwaitSpawn
  \/ Finally

RenderSpec == RenderInit /\ [][RenderNext]_vars

(***************************************************************************)
(* PreviewManager.handleWebviewMessage and revealRange (lines 215-247): a  *)
(* message a webview sends to its session while the subscription of lines  *)
(* 209-211 is live.  Whether the host can open the target document is not  *)
(* decided by this code.                                                   *)
(***************************************************************************)
\* the messages: something that is not an object, an object of another type,
\* a diagnostic.select without payload, and diagnostic.select with the
\* details present or missing
SelectDetails ==
  {[line |-> p[1], character |-> p[2], source |-> src] :
     p \in {<<UNDEF, UNDEF>>, <<3, UNDEF>>, <<3, 2>>},
     src \in {NONE, "template", "context"}}
WebviewMessages ==
  {[isObject |-> FALSE, type |-> NONE, payload |-> <<>>],
   [isObject |-> TRUE, type |-> "ready", payload |-> <<>>],
   [isObject |-> TRUE, type |-> "diagnostic.select", payload |-> <<>>]}
  \cup {[isObject |-> TRUE, type |-> "diagnostic.select", payload |-> <<d>>] :
          d \in SelectDetails}

targetUriTemplateOnly(session, details) == session.templateUri

\* lines 227-228
targetUri(session, details) ==
  IF details.source = "context" /\ session.contextUri # NONE
  THEN session.contextUri ELSE session.templateUri

\* lines 229-230: typeof x === 'number' ? x : 0
numberOrZero(x) == IF x # UNDEF THEN x ELSE 0

\* revealRange (lines 235-247): the location shown, or the line written to
\* the output channel when opening or showing the document throws
revealRange(uri, line, character, opens) ==
  IF opens
  THEN [revealed |-> <<[uri |-> uri, line |-> line, character |-> character]>>,
        logged |-> <<>>]
  ELSE [revealed |-> <<>>,
        logged |-> <<"[preview] failed to reveal diagnostic location">>]

\* handleWebviewMessage (lines 215-233)
handleWebviewMessage(session, message, opens) ==
  IF ~message.isObject THEN [revealed |-> <<>>, logged |-> <<>>]
  ELSE IF message.type = "diagnostic.select" /\ message.payload # <<>>
  THEN revealRange(targetUri(session, message.payload[1]),
                   numberOrZero(message.payload[1].line),
                   numberOrZero(message.payload[1].character), opens)
  ELSE [revealed |-> <<>>, logged |-> <<>>]

\* the webview of session object sid sends message
ReceiveMessage(sid, message, opens) ==
  /\ sid \in DOMAIN heap
  /\ heap[sid].messageSubscription = "active"
  /\ request' = <<[session |-> sid, message |-> message, opens |-> opens]>>
  /\ mapped' = <<handleWebviewMessage(heap[sid], message, opens)>>
  /\ UNCHANGED <<associationVars, rendererVars, platform, docs, sessions, heap, panels, timers,
                 tasks, collection, called, posted, rejected, subscribed,
                 events>>

\* one template is previewed, with and without a context
SelectNext ==
  \/ \E c \in OptContextUris : ShowPreview("A.tmpl", c, "gotemplate")
  \/ \E c \in OptContextUris : UpdateContext("A.tmpl", c)
  \/ \E task \in TaskSet, outcome \in RenderOutcomes : RenderComplete(task, outcome)
  \/ \E sid \in SessionIds : DisposePanel(sid)
  \/ \E sid \in SessionIds, message \in WebviewMessages, opens \in BOOLEAN :
       ReceiveMessage(sid, message, opens)

SelectSpec == Init /\ [][SelectNext]_vars

(***************************************************************************)
(* The Go worker (src/go-worker/main.go): execute(templatePath,            *)
(* contextPath) on its own.  Paths and file contents are sequences of      *)
(* characters; what is in the files, and whether they can be read, is      *)
(* drawn from sets.  A template is one of four texts: one that renders,    *)
(* the empty one, one that does not parse and one that parses and fails    *)
(* when it is executed.                                                    *)
(***************************************************************************)
\* the PreviewManager before any command
ManagerIdle ==
  /\ docs = [f \in Files |-> [version |-> 0, isDirty |-> FALSE]]
  /\ sessions = <<>>
  /\ heap = <<>>
  /\ panels = <<>>
  /\ timers = <<>>
  /\ tasks = EmptyBag
  /\ collection = <<>>
  /\ called = <<>>
  /\ posted = <<>>
  /\ rejected = FALSE
  /\ subscribed = TRUE
  /\ events = 0

WorkerPaths == {<<>>, <<" ">>, <<"t">>, <<"c">>, <<" ", "c">>}
TemplateTexts == {<<"o", "k">>, <<>>, <<"{", "{">>, <<"{", "{", "f", "}", "}">>}
ContextTexts == {<<>>, <<" ">>, <<"{", "}">>, <<" ", "{", "}">>, <<"{">>}

\* strings.TrimSpace
RECURSIVE TrimLeft(_)
TrimLeft(str) ==
  IF str # <<>> /\ Head(str) = " " THEN TrimLeft(Tail(str)) ELSE str
RECURSIVE TrimRight(_)
TrimRight(str) ==
  IF str # <<>> /\ str[Len(str)] = " "
  THEN TrimRight(SubSeq(str, 1, Len(str) - 1)) ELSE str
TrimSpace(str) == TrimRight(TrimLeft(str))

\* a Go error value (err == nil is <<>>) and the zero response
NoValue == [value |-> <<>>, err |-> <<>>]
ZeroResponse == [Rendered |-> <<>>, Diagnostics |-> <<>>, Error |-> <<>>]

\* os.ReadFile(path): files is what can be read, path -> content
ReadFile(files, path) ==
  IF path \in DOMAIN files THEN [value |-> files[path], err |-> <<>>]
  ELSE [value |-> <<>>, err |-> <<"o", "p", "e", "n">> \o path]

\* json.Unmarshal of the texts above: the object is the one that decodes
Unmarshals(text) == text = <<"{", "}">>

\* parseContext (lines 95-107)
parseContext(content) ==
  IF TrimSpace(content) = <<>> THEN [value |-> <<"map">>, err |-> <<>>]
  ELSE IF ~Unmarshals(TrimSpace(content))
  THEN [value |-> <<>>, err |-> <<"failed to parse context JSON">>]
  ELSE [value |-> <<"data">>, err |-> <<>>]

loadContextRead(read) ==
  IF read.err # <<>> THEN [value |-> <<>>, err |-> read.err]
  ELSE parseContext(read.value)

\* loadContext (lines 82-93)
loadContext(files, contextPath) ==
  IF TrimSpace(contextPath) = <<>> THEN [value |-> <<"map">>, err |-> <<>>]
  ELSE loadContextRead(ReadFile(files, contextPath))

\* renderTemplate (lines 109-142): Parse, then Execute into the builder
renderTemplate(path, content, data) ==
  IF content = <<"{", "{">>
  THEN [value |-> <<>>, err |-> <<"t", "e", "m", "p", "l", "a", "t", "e", ":">> \o path]
  ELSE IF content = <<"{", "{", "f", "}", "}">>
  THEN [value |-> <<>>, err |-> <<"e", "x", "e", "c", "u", "t", "i", "n", "g">> \o path]
  ELSE [value |-> content, err |-> <<>>]

executeRenderedNoDiagnostic(r) ==
  IF r.err # <<>>
  THEN [ZeroResponse EXCEPT !.Error = r.err]
  ELSE [ZeroResponse EXCEPT !.Rendered = r.value]

\* lines 68-79
executeRendered(r) ==
  IF r.err # <<>>
  THEN [ZeroResponse EXCEPT
          !.Diagnostics = <<[Message |-> r.err, Severity |-> "error"]>>,
          !.Error = r.err]
  ELSE [ZeroResponse EXCEPT !.Rendered = r.value]

\* lines 63-68
executeLoaded(templatePath, content, loaded) ==
  IF loaded.err # <<>> THEN [ZeroResponse EXCEPT !.Error = loaded.err]
  ELSE executeRendered(renderTemplate(templatePath, content, loaded.value))

\* lines 58-63
executeRead(files, templatePath, contextPath, read) ==
  IF read.err # <<>> THEN [ZeroResponse EXCEPT !.Error = read.err]
  ELSE executeLoaded(templatePath, read.value, loadContext(files, contextPath))

\* execute (lines 53-80)
execute(files, templatePath, contextPath) ==
  IF templatePath = <<>>
  THEN [ZeroResponse EXCEPT !.Error = <<"template path is required">>]
  ELSE executeRead(files, templatePath, contextPath,
                   ReadFile(files, templatePath))

\* the files the worker can read: none, the template, or both
WorkerFiles ==
  {<<>>} \cup
  {(<<"t">> :> t) : t \in TemplateTexts} \cup
  {(<<"t">> :> t) @@ (<<"c">> :> c) : t \in TemplateTexts, c \in ContextTexts}

WorkerInit ==
  /\ platform \in Platforms
  /\ \E files \in WorkerFiles, t \in WorkerPaths, c \in WorkerPaths :
       request = <<[files |-> files, templatePath |-> t, contextPath |-> c]>>
  /\ mapped = <<>>
  /\ RendererIdle
  /\ AssociationsIdle
  /\ ManagerIdle

Execute ==
  /\ request # <<>>
  /\ mapped = <<>>
  /\ mapped' = <<execute(request[1].files, request[1].templatePath,
                         request[1].contextPath)>>
  /\ UNCHANGED <<associationVars, rendererVars, request, platform, docs, sessions, heap,
                 panels, timers, tasks, collection, called, posted, rejected,
                 subscribed, events>>

WorkerNext == Execute

WorkerSpec == WorkerInit /\ [][WorkerNext]_vars

(***************************************************************************)
(* ContextAssociationManager (src/context/contextAssociationManager.ts).   *)
(* A path is the sequence of its characters; "\\" is the backslash.  A     *)
(* template uri is given by what vscode.workspace.asRelativePath returns   *)
(* for it; a ContextDescriptor by its relativePath.                        *)
(***************************************************************************)
\* the configuration the constructor reads and the calls and events after it
MaxHistory == 3

TemplatePaths == {<<"t">>, <<"d", "/", "t">>, <<"d", "\\", "t">>}
ContextPaths == {"c1.json", "c2.json"}
AssociationUris ==
  {[relative |-> p] : p \in TemplatePaths \cup {<<>>, <<".", ".", "/", "t">>}}
ContextDescriptors == {[relativePath |-> c] : c \in ContextPaths}

\* WorkspaceConfiguration.defaultContext: the entries of the object in the
\* order Object.entries lists them, no key twice
DefaultContexts ==
  {<<>>}
  \cup {<<<<t, c>>>> : t \in TemplatePaths, c \in ContextPaths}
  \cup {<<e[1], e[2]>> :
          e \in {f \in (TemplatePaths \X ContextPaths)
                        \X (TemplatePaths \X ContextPaths) : f[1][1] # f[2][1]}}

\* normalizePath of this class, lines 65-67
normalizeAssociationPath(input) ==
  [i \in 1..Len(input) |-> IF input[i] = "\\" THEN "/" ELSE input[i]]

startsWithDotDot(relative) ==
  Len(relative) >= 2 /\ relative[1] = "." /\ relative[2] = "."

\* lines 56-63: <<>> is undefined
workspaceRelativePath(uri) ==
  IF uri.relative = <<>> \/ startsWithDotDot(uri.relative)
  THEN <<>>
  ELSE <<normalizeAssociationPath(uri.relative)>>

\* line 15
setDefault(assoc, entry) ==
  Put(assoc, normalizeAssociationPath(entry[1]), entry[2])

\* lines 14-16
RECURSIVE constructorDefaults(_, _)
constructorDefaults(assoc, entries) ==
  IF entries = <<>> THEN assoc
  ELSE constructorDefaults(setDefault(assoc, Head(entries)), Tail(entries))

\* lines 20-23, with the association overwritten
addDefaultOverriding(assoc, entry) ==
  Put(assoc, normalizeAssociationPath(entry[1]), entry[2])

\* lines 20-23
addDefault(assoc, entry) ==
  IF normalizeAssociationPath(entry[1]) \in DOMAIN assoc
  THEN assoc
  ELSE Put(assoc, normalizeAssociationPath(entry[1]), entry[2])

\* lines 18-25: the listener of onDidChangeConfiguration
RECURSIVE onDidChangeConfiguration(_, _)
onDidChangeConfiguration(assoc, entries) ==
  IF entries = <<>> THEN assoc
  ELSE onDidChangeConfiguration(addDefault(assoc, Head(entries)),
                                Tail(entries))

\* lines 42-50
setActiveContext(assoc, templateUri, context) ==
  IF workspaceRelativePath(templateUri) = <<>>
  THEN assoc
  ELSE Put(assoc, workspaceRelativePath(templateUri)[1], context.relativePath)

\* lines 28-37: the configured path of the template, <<>> for undefined
configuredPath(assoc, templateUri) ==
  IF workspaceRelativePath(templateUri) = <<>> THEN <<>>
  ELSE IF workspaceRelativePath(templateUri)[1] \notin DOMAIN assoc THEN <<>>
  ELSE <<assoc[workspaceRelativePath(templateUri)[1]]>>

\* the manager as constructed from the configuration of the moment
AssociationInit ==
  /\ platform \in Platforms
  /\ \E config \in DefaultContexts :
       /\ associations = constructorDefaults(<<>>, config)
       /\ history = <<[op |-> "configuration", defaultContext |-> config]>>
  /\ request = <<>>
  /\ mapped = <<>>
  /\ RendererIdle
  /\ ManagerIdle

SetActiveContext(templateUri, context) ==
  /\ Len(history) < MaxHistory
  /\ associations' = setActiveContext(associations, templateUri, context)
  /\ history' = Append(history, [op |-> "setActiveContext",
                                 templateUri |-> templateUri,
                                 context |-> context])
  /\ UNCHANGED <<rendererVars, request, mapped, platform, docs, sessions,
                 heap, panels, timers, tasks, collection, called, posted,
                 rejected, subscribed, events>>

ConfigurationChanged(updated) ==
  /\ Len(history) < MaxHistory
  /\ associations' = onDidChangeConfiguration(associations, updated)
  /\ history' = Append(history, [op |-> "configuration",
                                 defaultContext |-> updated])
  /\ UNCHANGED <<rendererVars, request, mapped, platform, docs, sessions,
                 heap, panels, timers, tasks, collection, called, posted,
                 rejected, subscribed, events>>

AssociationNext ==
  \/ \E u \in AssociationUris, c \in ContextDescriptors :
       SetActiveContext(u, c)
  \/ \E updated \in DefaultContexts : ConfigurationChanged(updated)

AssociationSpec == AssociationInit /\ [][AssociationNext]_vars

(***************************************************************************)
(* Properties                                                              *)
(***************************************************************************)
\* the armed timers whose callback renders session object sid
Armed(tm, sid) == {t \in DOMAIN tm : tm[t] = sid}

\* the suspended calls the step added
Added == tasks' (-) tasks

\* both signatures of the session are the recorded ones
Unmodified(session) ==
  /\ getDocumentSignature(session.templateUri) = session.templateSignature
  /\ getDocumentSignature(session.contextUri) = session.contextSignature

\* C1: coalescing.  A change or save notification for a session's template or
\* context leaves the session with exactly one armed timer, also when the
\* timer of an earlier notification is still armed, and starts no render
\* itself; a debounced render starts only when a timer fires, and the firing
\* uses up the session's only timer.  So notifications that each arrive before
\* the timer of the one before has fired start one debounced render, after
\* the last of them.
C1_Coalescing ==
  [][/\ \A u \in Uris :
          (ChangeDocument(u) \/ SaveDocument(u)) =>
             /\ called' = <<>>
             /\ tasks' = tasks
             /\ \A sid \in Range(sessions) :
                  watches(heap[sid], u) =>
                     Cardinality(Armed(timers', sid)) = 1
     /\ \A t \in TimerIds :
          TimerFire(t) =>
             /\ Armed(timers, timers[t]) = {t}
             /\ Armed(timers', timers[t]) = {}
             /\ called' # <<>>
             /\ called'[1].origin = "timer"
             /\ called'[1].session = timers[t]
     /\ (called' # <<>> /\ called'[1].origin = "timer") =>
          \E t \in TimerIds : TimerFire(t)
    ]_vars

\* C1 witness: a preview was opened, its template was edited twice, and the
\* one timer has just fired: one debounced render was started, for the
\* document as the second edit left it, and none for the first edit.
C1_Witness ==
  /\ events = 3
  /\ docs["a.tmpl"].version = 2
  /\ timers = <<>>
  /\ called # <<>>
  /\ called[1].origin = "timer"
  /\ called[1].invoked
  /\ \A task \in TaskSet :
       task.origin = "timer" => task.templateSignature = <<"open", 2, "dirty">>
  /\ \A sid \in Range(sessions) :
       heap[sid].templateSignature # <<"open", 1, "dirty">>

\* the PreviewDiagnostic the failing outcome of the model maps to
FailingDiagnostics ==
  <<[message |-> <<"E", "O", "F">>, severity |-> "error", line |-> 1,
     character |-> UNDEF, source |-> "template"]>>

\* C2: stale fallback.  When the engine's result carries an errorMessage and
\* the session holds a last successful output, the render message posted to
\* the live panel has isStale = TRUE, the rendered text of the last successful
\* render, which stays stored unchanged, the new error message and the
\* diagnostics mapped from the failing result.
C2_StaleFallback ==
  [][\A task \in TaskSet, outcome \in RenderResults :
        (/\ RenderComplete(task, outcome)
         /\ outcome.errorMessage # NONE
         /\ heap[task.session].lastSuccessful # <<>>
         /\ ~panels[heap[task.session].panel].disposed) =>
           /\ posted' # <<>>
           /\ posted'[1].type = "render"
           /\ posted'[1].panel = heap[task.session].panel
           /\ posted'[1].payload.isStale = TRUE
           /\ posted'[1].payload.rendered =
                heap[task.session].lastSuccessful[1].rendered
           /\ posted'[1].payload.errorMessage = outcome.errorMessage
           /\ posted'[1].payload.diagnostics = FailingDiagnostics
           /\ heap'[task.session].lastSuccessful =
                heap[task.session].lastSuccessful
    ]_vars

\* C2 witness: a stale payload with the text of an earlier success was posted
C2_Witness ==
  /\ posted # <<>>
  /\ posted[1].type = "render"
  /\ posted[1].payload.isStale
  /\ posted[1].payload.rendered = "B"
  /\ posted[1].payload.errorMessage = "parse error"
  /\ heap[posted[1].panel].lastSuccessful = <<[rendered |-> "B", isHtml |-> TRUE]>>

\* C3: dispose during an in-flight render.  A session whose panel is disposed
\* is not in the registry, and the engine's answer to a call of such a session
\* is neither posted to the disposed panel nor does handling it throw.
C3_DisposeDuringRender ==
  /\ \A sid \in DOMAIN heap :
       panels[heap[sid].panel].disposed => sid \notin Range(sessions)
  /\ posted # <<>> => ~panels[posted[1].panel].disposed
  /\ ~rejected

\* C4: routing fan-out.  After a change or save notification for a document,
\* every session in the registry whose template or context is that document
\* has an armed timer.
C4_FanOut ==
  [][\A u \in Uris :
        (ChangeDocument(u) \/ SaveDocument(u)) =>
           \A sid \in Range(sessions) :
             watches(heap[sid], u) =>
                /\ heap'[sid].renderTimer \in DOMAIN timers'
                /\ timers'[heap'[sid].renderTimer] = sid
    ]_vars

\* C4 witness: two sessions share the context document; it was saved (no
\* document was ever edited) and both sessions have their timer armed
C4_Witness ==
  /\ Cardinality(Range(sessions)) = 2
  /\ \A f \in DOMAIN docs : docs[f].version = 0
  /\ \A sid \in Range(sessions) :
       /\ heap[sid].contextUri = "c.json"
       /\ Armed(timers, sid) = {heap[sid].renderTimer}

\* the session objects whose panel is open
Open == {sid \in DOMAIN heap : ~panels[heap[sid].panel].disposed}

\* C5: at most one session per key.  No two sessions with an open panel have
\* templates with the same normalized key, the registry holds each session
\* under the normalized key of its template, and showPreview for a template
\* whose key has a session creates no panel and no registry entry, and leaves
\* that session with the template, context and language it was given.
C5_OneSessionPerKey ==
  /\ [](/\ \A a, b \in Open :
             handleUriCase(heap[a].templateUri) = handleUriCase(heap[b].templateUri)
                => a = b
        /\ \A key \in DOMAIN sessions :
             key = handleUriCase(heap[sessions[key]].templateUri))
  /\ [][\A u \in TemplateUris, c \in OptContextUris, l \in LanguageIds :
          \A sid \in Open :
            (/\ ShowPreview(u, c, l)
             /\ handleUriCase(heap[sid].templateUri) = handleUriCase(u)) =>
               /\ sessions' = sessions
               /\ DOMAIN panels' = DOMAIN panels
               /\ Open' = Open
               /\ heap'[sid].panel = heap[sid].panel
               /\ heap'[sid].templateUri = u
               /\ heap'[sid].contextUri = c
               /\ heap'[sid].languageId = l
       ]_vars

\* C5 witness: on win32 a preview of a.tmpl was opened and then one of A.tmpl
\* with another context and language: one session, one panel, two renders
C5_Witness ==
  /\ platform = "win32"
  /\ DOMAIN sessions = {"a.tmpl"}
  /\ Cardinality(DOMAIN panels) = 1
  /\ heap[sessions["a.tmpl"]].templateUri = "A.tmpl"
  /\ BagCardinality(tasks) = 2
  /\ \E t1, t2 \in TaskSet :
       /\ t1.templateArg = "a.tmpl" /\ t1.contextArg = NONE
       /\ t2.templateArg = "A.tmpl" /\ t2.contextArg = "c.json"
  /\ called # <<>>
  /\ called[1].origin = "open"

\* C6: session lifetime equals panel lifetime.  A session object is in the
\* registry exactly when its panel is not disposed, under its own key only,
\* and no timer is armed for a session whose panel is disposed; after
\* PreviewManager.dispose nothing is left in the registry and no timer is
\* armed.
C6_Lifetime ==
  /\ \A sid \in DOMAIN heap :
       /\ sid \in Range(sessions) <=> ~panels[heap[sid].panel].disposed
       /\ panels[heap[sid].panel].disposed => Armed(timers, sid) = {}
  /\ \A t \in DOMAIN timers : timers[t] \in Range(sessions)
  /\ Range(sessions) \subseteq DOMAIN heap
  /\ ~subscribed => sessions = <<>> /\ timers = <<>>

\* C6 witness: a panel was closed while its session had a timer pending and a
\* render in flight: the session is out of the registry and its timer is
\* cancelled
C6_Witness ==
  \E sid \in DOMAIN heap :
    /\ panels[heap[sid].panel].disposed
    /\ sid \notin Range(sessions)
    /\ heap[sid].renderTimer # 0
    /\ Armed(timers, sid) = {}
    /\ subscribed

\* C7 as stated: for every session object, in the registry or not, the armed
\* timers are at most one and there is one exactly when renderTimer is set.
C7_AsStated ==
  \A sid \in DOMAIN heap :
    /\ Cardinality(Armed(timers, sid)) <= 1
    /\ Cardinality(Armed(timers, sid)) = 1 <=> heap[sid].renderTimer # 0

\* C7 amended: every session object has at most one armed timer; for a
\* session in the registry the armed timer is the one renderTimer holds, and
\* there is none when renderTimer is not set; a session whose panel is
\* disposed has no armed timer (its renderTimer may still hold the cancelled
\* handle).
C7_OneTimer ==
  /\ \A sid \in DOMAIN heap : Cardinality(Armed(timers, sid)) <= 1
  /\ \A sid \in Range(sessions) :
       Armed(timers, sid) =
         IF heap[sid].renderTimer # 0 THEN {heap[sid].renderTimer} ELSE {}
  /\ \A sid \in DOMAIN heap \ Range(sessions) : Armed(timers, sid) = {}

\* C7 witness: a session whose timer fired and that was notified again: the
\* timer armed is the one of the second notification
C7_Witness ==
  \E sid \in Range(sessions) :
    /\ Armed(timers, sid) = {heap[sid].renderTimer}
    /\ \E task \in TaskSet : task.session = sid /\ task.origin = "timer"
    /\ events = 3

\* C8: signature skip.  When a timer fires for a session whose template and
\* context signatures are the recorded ones, the engine is not invoked,
\* nothing is posted, and the session's signatures and last successful
\* output and the diagnostic collection stay as they are.
C8_SignatureSkip ==
  [][\A t \in TimerIds :
        (TimerFire(t) /\ Unmodified(heap[timers[t]])) =>
           /\ tasks' = tasks
           /\ posted' = <<>>
           /\ collection' = collection
           /\ heap'[timers[t]].templateSignature = heap[timers[t]].templateSignature
           /\ heap'[timers[t]].contextSignature = heap[timers[t]].contextSignature
           /\ heap'[timers[t]].lastSuccessful = heap[timers[t]].lastSuccessful
    ]_vars

\* C8 witness: after a completed render, a save of the unmodified template
\* armed the timer, and the timer's render was skipped
C8_Witness ==
  /\ called # <<>>
  /\ called[1].origin = "timer"
  /\ ~called[1].invoked
  /\ heap[called[1].session].templateSignature # <<>>
  /\ Unmodified(heap[called[1].session])

\* C9: explicit open is never skipped.  Every showPreview adds exactly one
\* engine invocation, for the session of the template's key and with the
\* template and context it was given.
C9_OpenRenders ==
  [][\A u \in TemplateUris, c \in OptContextUris, l \in LanguageIds :
        ShowPreview(u, c, l) =>
           /\ BagCardinality(Added) = 1
           /\ tasks (+) Added = tasks'
           /\ \A task \in BagToSet(Added) :
                /\ task.origin = "open"
                /\ task.session = sessions'[handleUriCase(u)]
                /\ task.templateArg = u
                /\ task.contextArg = c
    ]_vars

\* C9 witness: showPreview on an existing session whose signatures are the
\* recorded ones invoked the engine
C9_Witness ==
  /\ called # <<>>
  /\ called[1].origin = "open"
  /\ called[1].invoked
  /\ heap[called[1].session].templateSignature # <<>>
  /\ Unmodified(heap[called[1].session])

Live(task) == ~panels[heap[task.session].panel].disposed

\* the PreviewDiagnostic the succeeding outcome with a warning maps to
WarningDiagnostics ==
  <<[message |-> <<"b", "a", "d">>, severity |-> "warning", line |-> 2,
     character |-> UNDEF, source |-> "context"]>>

\* C11: success outcome.  When the engine's result carries no errorMessage,
\* the session records the signatures computed when the render began and
\* stores the rendered text with its markup flag as last successful output,
\* and the render message posted to the live panel carries the engine's
\* rendered text, the diagnostics mapped from this result, isStale = FALSE
\* and no errorMessage.
C11_Success ==
  [][\A task \in TaskSet, outcome \in RenderResults :
        (/\ RenderComplete(task, outcome)
         /\ outcome.errorMessage = NONE
         /\ Live(task)) =>
           /\ heap'[task.session].templateSignature = task.templateSignature
           /\ heap'[task.session].contextSignature = task.contextSignature
           /\ heap'[task.session].lastSuccessful =
                <<[rendered |-> outcome.rendered,
                   isHtml |-> heap[task.session].languageId = "gotemplate"]>>
           /\ posted' # <<>>
           /\ posted'[1].type = "render"
           /\ posted'[1].panel = heap[task.session].panel
           /\ posted'[1].payload.rendered = outcome.rendered
           /\ posted'[1].payload.diagnostics =
                IF outcome.diagnostics = <<>> THEN <<>> ELSE WarningDiagnostics
           /\ posted'[1].payload.isStale = FALSE
           /\ posted'[1].payload.errorMessage = NONE
    ]_vars

\* C11 witness: a success with a warning was posted and recorded, for a
\* render that began after an edit of the template
C11_Witness ==
  /\ posted # <<>>
  /\ posted[1].type = "render"
  /\ posted[1].payload.rendered = "B"
  /\ posted[1].payload.diagnostics # <<>>
  /\ ~posted[1].payload.isStale
  /\ heap[posted[1].panel].lastSuccessful[1].rendered = "B"
  /\ heap[posted[1].panel].templateSignature = <<"open", 1, "dirty">>

C13_TransportFailure ==
  [][\A task \in TaskSet, outcome \in RenderThrows :
        (RenderComplete(task, outcome) /\ Live(task)) =>
           /\ comparisonKey(heap[task.session].templateUri) \notin DOMAIN collection'
           /\ comparisonKey(heap[task.session].contextUri) \notin DOMAIN collection'
           /\ \A k \in DOMAIN collection' : collection'[k] = collection[k]
           /\ posted' = <<[type |-> "error", panel |-> heap[task.session].panel,
                           payload |-> [message |-> outcome.message]]>>
           /\ heap'[task.session] = heap[task.session]
    ]_vars

\* C13 witness: a render of a session with recorded signatures and a last
\* successful output threw, and an error message was posted
C13_Witness ==
  /\ posted # <<>>
  /\ posted[1].type = "error"
  /\ heap[posted[1].panel].lastSuccessful # <<>>
  /\ heap[posted[1].panel].contextUri = "c.json"
  /\ "c.json" \notin DOMAIN collection

\* the suspended calls of session object sid
InFlight(sid) == {task \in TaskSet : task.session = sid}

\* C15 as stated: no two engine invocations of the same session are in flight
\* at the same time.
C15_AsStated ==
  \A task \in TaskSet :
    /\ CopiesIn(task, tasks) = 1
    /\ InFlight(task.session) = {task}

\* C15 amended: the debounce timer is what serializes the renders of a
\* session.  At most one timer is armed per session, a notification starts
\* no engine invocation, and an open, an updateContext or a timer firing
\* starts at most one, for the session it is about; invocations that
\* distinct events started may be in flight together.
C15_Serialized ==
  /\ [](\A sid \in DOMAIN heap : Cardinality(Armed(timers, sid)) <= 1)
  /\ [][/\ BagCardinality(Added) <= 1
        /\ \A task \in BagToSet(Added) :
             /\ called' # <<>>
             /\ called'[1].invoked
             /\ called'[1].session = task.session
             /\ called'[1].origin = task.origin
             /\ task.origin \in {"open", "update", "timer"}
        /\ events' # events /\ called' = <<>> => Added = EmptyBag
       ]_vars

\* C15 witness: a timer fired while the render of the open was in flight; two
\* invocations of the session are in flight, and a notification has re-armed
\* the one timer
C15_Witness ==
  \E sid \in Range(sessions) :
    /\ \E t1, t2 \in InFlight(sid) : t1.origin = "open" /\ t2.origin = "timer"
    /\ Cardinality(Armed(timers, sid)) = 1

\* the documents of a session
DocumentsOf(session) ==
  {session.templateUri} \cup
  (IF session.contextUri # NONE THEN {session.contextUri} ELSE {})

\* the entry of the diagnostic collection for a document: <<>> when it has none
EntryOf(coll, uri) ==
  IF comparisonKey(uri) \in DOMAIN coll THEN <<coll[comparisonKey(uri)]>> ELSE <<>>

\* the session object, its panel and its timers are as they were
SessionKept(sid) ==
  /\ sid \in DOMAIN heap'
  /\ heap'[sid] = heap[sid]
  /\ panels'[heap[sid].panel] = panels[heap[sid].panel]
  /\ Armed(timers', sid) = Armed(timers, sid)
  /\ sid \in Range(sessions') <=> sid \in Range(sessions)

\* the file hints of the diagnostics of an outcome
HintsOf(outcome) ==
  IF outcome.kind = "throw" THEN {}
  ELSE {outcome.diagnostics[i].file : i \in 1..Len(outcome.diagnostics)}

\* C17 as stated: the end of a render (result or failure) of one session and
\* the disposal of one session leave every other session as it was, and the
\* diagnostic collection's entries of the other session's documents as well.
C17_AsStated ==
  [][/\ \A task \in TaskSet, outcome \in RenderOutcomes :
          RenderComplete(task, outcome) =>
             \A other \in DOMAIN heap \ {task.session} :
               /\ SessionKept(other)
               /\ \A uri \in DocumentsOf(heap[other]) :
                    EntryOf(collection', uri) = EntryOf(collection, uri)
     /\ \A sid \in SessionIds :
          DisposePanel(sid) =>
             \A other \in DOMAIN heap \ {sid} :
               /\ SessionKept(other)
               /\ \A uri \in DocumentsOf(heap[other]) :
                    EntryOf(collection', uri) = EntryOf(collection, uri)
    ]_vars

\* C17 amended: the end of a render of one session and the disposal of one
\* session leave every other session object, its panel and its timers as
\* they were.  The diagnostic collection is shared: the end of a render
\* changes no entries but those of the rendering session's own documents and
\* of the files its diagnostics name, whoever else references them; a
\* disposal changes none.
C17_Independent ==
  [][/\ \A task \in TaskSet, outcome \in RenderOutcomes :
          RenderComplete(task, outcome) =>
             /\ \A other \in DOMAIN heap \ {task.session} : SessionKept(other)
             /\ \A uri \in (DOMAIN collection \cup DOMAIN collection') \
                           comparisonKeys(DocumentsOf(heap[task.session]) \cup
                                          HintsOf(outcome)) :
                  EntryOf(collection', uri) = EntryOf(collection, uri)
     /\ \A sid \in SessionIds :
          DisposePanel(sid) =>
             /\ \A other \in DOMAIN heap \ {sid} : SessionKept(other)
             /\ collection' = collection
    ]_vars

\* C17 witness: two sessions share the context document, and the render of
\* one has just put its diagnostics into the entry of that document
C17_Witness ==
  /\ Cardinality(Range(sessions)) = 2
  /\ \A sid \in Range(sessions) : heap[sid].contextUri = "c.json"
  /\ posted # <<>>
  /\ posted[1].type = "render"
  /\ posted[1].payload.diagnostics # <<>>
  /\ "c.json" \in DOMAIN collection

\* the outcome is a failure: the engine reported an error or the client threw
Failure(outcome) ==
  IF outcome.kind = "throw" THEN TRUE ELSE outcome.errorMessage # NONE

\* C14: no failure wedges a session.  A render that fails leaves its session
\* in the registry and its panel showing the failure; a change or save
\* notification that arrives for the session while the panel shows the
\* failure arms its timer and leaves the session with signatures that are not
\* the recorded ones, and a timer that fires for a session whose signatures
\* are not the recorded ones invokes the engine: the render of the next
\* trigger is not skipped by the signature check.
C14_NoWedge ==
  [][/\ \A task \in TaskSet, outcome \in RenderOutcomes :
          (/\ RenderComplete(task, outcome)
           /\ Failure(outcome)
           /\ task.session \in Range(sessions)) =>
             /\ task.session \in Range(sessions')
             /\ panels'[heap[task.session].panel].errorBanner
     /\ \A u \in Uris :
          (ChangeDocument(u) \/ SaveDocument(u)) =>
             \A sid \in Range(sessions) :
               (watches(heap[sid], u) /\ panels[heap[sid].panel].errorBanner) =>
                  /\ Armed(timers', sid) # {}
                  /\ ~Unmodified(heap[sid])'
     /\ \A t \in TimerIds :
          (TimerFire(t) /\ ~Unmodified(heap[timers[t]])) =>
             /\ called' # <<>>
             /\ called'[1].session = timers[t]
             /\ called'[1].invoked
    ]_vars

\* the suspended calls of session object sid that read the documents the
\* session names now, at signatures that are no longer the current ones: a
\* document of the session changed while they were in flight
Overtaken(sid) ==
  {task \in InFlight(sid) :
     /\ FileOf(task.templateArg) = FileOf(heap[sid].templateUri)
     /\ FileOf(task.contextArg) = FileOf(heap[sid].contextUri)
     /\ \/ task.templateSignature # getDocumentSignature(heap[sid].templateUri)
        \/ task.contextSignature # getDocumentSignature(heap[sid].contextUri)}

\* C16: a trigger is not lost to an in-flight render.  A change notification
\* for a document of a session with a render in flight leaves one timer armed
\* for the session and the session's signatures different from the recorded
\* ones; a timer that fires for a session whose signatures differ from the
\* recorded ones starts a render that invokes the engine with the signatures
\* of that moment, whatever is in flight; and when a render that the change
\* has overtaken completes first, the session's signatures still differ from
\* the recorded ones, so that the timer's render is not skipped either.
C16_TriggerKept ==
  [][/\ \A u \in DOMAIN docs :
          ChangeDocument(u) =>
            \A sid \in Range(sessions) :
              (watches(heap[sid], u) /\ InFlight(sid) # {}) =>
                 /\ Cardinality(Armed(timers', sid)) = 1
                 /\ ~Unmodified(heap[sid])'
     /\ \A t \in TimerIds :
          (TimerFire(t) /\ ~Unmodified(heap[timers[t]])) =>
             /\ called' # <<>>
             /\ called'[1].session = timers[t]
             /\ called'[1].invoked
             /\ \E task \in BagToSet(Added) :
                  /\ task.session = timers[t]
                  /\ task.templateSignature =
                       getDocumentSignature(heap[timers[t]].templateUri)
                  /\ task.contextSignature =
                       getDocumentSignature(heap[timers[t]].contextUri)
     /\ \A task \in TaskSet, outcome \in RenderOutcomes :
          (/\ RenderComplete(task, outcome)
           /\ task.session \in Range(sessions)
           /\ task \in Overtaken(task.session)
           /\ ~Unmodified(heap[task.session])) =>
              ~Unmodified(heap[task.session])'
    ]_vars

\* the call of applyDiagnostics has returned
Applied == request # <<>> /\ mapped # <<>>
\* its arguments and the list it returned
Given == request[1].diagnostics
Returned == mapped[1]

IsSuffix(s, t) ==
  Len(s) <= Len(t) /\ SubSeq(t, Len(t) - Len(s) + 1, Len(t)) = s

\* C18: applyDiagnostics returns exactly one PreviewDiagnostic per input
\* RenderDiagnostic, in input order and with the input's severity, whatever
\* the file hint and the position fields: the list returned is as long as
\* the list given, and its i-th element has the severity of the i-th input
\* and a message taken from the i-th input's message.
C18_OnePerInput ==
  Applied =>
    /\ Len(Returned) = Len(Given)
    /\ \A i \in 1..Len(Given) :
         /\ Returned[i].severity = Given[i].severity
         /\ IsSuffix(Returned[i].message, Given[i].message)

\* C18 witness: two diagnostics of different severities and messages were
\* mapped, the first with a hint that names neither document and with a line
C18_Witness ==
  /\ Applied
  /\ Len(Given) = 2
  /\ Given[1].file = "x.txt" /\ Given[1].line = 3
  /\ Given[1].severity = "warning" /\ Given[2].severity = "error"
  /\ Given[1].message = PlainMessage /\ Given[2].message = PrefixedMessage
  /\ Len(Returned) = 2

\* the target applyDiagnostics resolved for the i-th input
TargetOf(i) ==
  resolveTargetUri(request[1].templateUri, request[1].contextUri, Given[i].file)

\* C19: source tag.  The source of every mapped diagnostic is context if and
\* only if the resolved target is the context document of the call, and
\* template otherwise: also when there is no context document, when the hint
\* matches neither document, and when there is no hint.
C19_SourceTag ==
  Applied =>
    \A i \in 1..Len(Given) :
      /\ Returned[i].source \in {"template", "context"}
      /\ Returned[i].source = "context" <=>
           (request[1].contextUri # NONE /\ TargetOf(i) = request[1].contextUri)

\* the parts of the i-th input's message, when its line and column are absent
\* and the message has the shape  template: <name>:<N>[:<M>]: <rest>
ShapeOf(i) ==
  {sh \in [n : LineStrings, m : ColumnStrings, rest : Rests] :
     /\ Given[i].line = UNDEF
     /\ Given[i].column = UNDEF
     /\ Given[i].message = Shaped(sh.n, sh.m, sh.rest)}

PlainRest(rest) ==
  /\ rest # <<>>
  /\ ~IsSpace(rest[1])
  /\ \A k \in 1..Len(rest) : ~IsLineTerminator(rest[k])

IndexPosition(i) == Cardinality({j \in 1..i : TargetOf(j) = TargetOf(i)})
IndexEntry(i) == collection[comparisonKey(TargetOf(i))][IndexPosition(i)]

\* the i-th input has no positive line and no parseable message prefix
Unresolvable(i) ==
  /\ Given[i].line <= 0
  /\ parseTemplateLocation(Given[i].message) = <<>>

\* C21: unresolvable location.  A diagnostic with no positive line and no
\* parseable message prefix is kept with its message; without a file hint
\* it is attributed to the template document, whose index entry holds it on
\* line 0; and its mapped record (the PreviewDiagnostic) has line 0, with
\* the character absent when the input gave no column.
C21_Unresolvable ==
  Applied =>
    \A i \in 1..Len(Given) :
      Unresolvable(i) =>
        /\ Len(Returned) = Len(Given)
        /\ Returned[i].message = Given[i].message
        /\ Given[i].file = NONE =>
             /\ Returned[i].source = "template"
             /\ TargetOf(i) = request[1].templateUri
             /\ IndexEntry(i).message = Given[i].message
             /\ IndexEntry(i).range.startLine = 0
        /\ Returned[i].line = 0
        /\ Given[i].column <= 0 => Returned[i].character = UNDEF

\* the full line, and the single point
FullLine(line) ==
  [startLine |-> line, startCharacter |-> 0,
   endLine |-> line, endCharacter |-> MAX_SAFE_INTEGER]
Point(line, character) ==
  [startLine |-> line, startCharacter |-> character,
   endLine |-> line, endCharacter |-> character]
\* the zero-based line of the i-th mapped diagnostic, 0 when it has none
DisplayLine(i) == IF Returned[i].line = UNDEF THEN 0 ELSE Returned[i].line

\* C22: display range shape.  The range recorded in the diagnostics index
\* for a mapped diagnostic spans the full line when no column is available,
\* and is the single point (line-1, column-1) when a column is available.
C22_RangeShape ==
  Applied =>
    \A i \in 1..Len(Given) :
      IndexEntry(i).range =
        IF Returned[i].character = UNDEF
        THEN FullLine(DisplayLine(i))
        ELSE Point(DisplayLine(i), Returned[i].character)

\* the call of applyDiagnostics at the end of the render has an empty list:
\* the engine reported no diagnostics, or the client threw (line 156)
EmptyList(outcome) ==
  IF outcome.kind = "throw" THEN TRUE ELSE outcome.diagnostics = <<>>

\* C23: an empty list clears.  A call of applyDiagnostics with an empty list
\* leaves the diagnostic collection without an entry for the template and
\* without an entry for the context document of the session, whatever the
\* collection held for them before.
C23_EmptyClears ==
  [][\A task \in TaskSet, outcome \in RenderOutcomes :
        (RenderComplete(task, outcome) /\ EmptyList(outcome)) =>
           \A uri \in DocumentsOf(heap[task.session]) :
             EntryOf(collection', uri) = <<>>
    ]_vars

\* C23 witness: a session with context c.json has rendered "B", whose
\* warning was recorded for c.json; a later render of it threw, its catch
\* block called applyDiagnostics with an empty list, and c.json has no entry
C23_Witness ==
  /\ posted # <<>>
  /\ posted[1].type = "error"
  /\ heap[posted[1].panel].contextUri = "c.json"
  /\ heap[posted[1].panel].lastSuccessful # <<>>
  /\ heap[posted[1].panel].lastSuccessful[1].rendered = "B"
  /\ collection = <<>>

\* the targets the call of applyDiagnostics at the end of the render produced
\* diagnostics for
ProducedFor(session, outcome) ==
  IF outcome.kind = "throw" THEN {}
  ELSE EntryKeys(session.templateUri, session.contextUri, outcome.diagnostics)

\* C24: no stale diagnostics.  After the mapping call at the end of a render
\* of an open session, a document holds an entry only if this call produced
\* diagnostics for it, or if another open session references it and its
\* entry is the one it had; nothing recorded earlier for a former context
\* document or for a file that only a hint named remains.
C24_NoStale ==
  [][\A task \in TaskSet, outcome \in RenderOutcomes :
        (RenderComplete(task, outcome) /\ task.session \in Range(sessions)) =>
           \A k \in DOMAIN collection' :
             \/ k \in comparisonKeys(ProducedFor(heap[task.session], outcome))
             \/ \E other \in Range(sessions) \ {task.session} :
                  /\ k \in comparisonKeys(DocumentsOf(heap[other]))
                  /\ EntryOf(collection', k) = EntryOf(collection, k)
    ]_vars

\* C25: snapshot cleanup on all exit paths.  When a call of render has
\* settled, by a result or by an exception of any origin, no temporary
\* directory that createSnapshot made exists any more.
C25_SnapshotCleanup ==
  call.pc = "settled" => DOMAIN tempDirs = {}

\* the open documents that the signature computation and the routing take
\* for uri (isSameResource) and that are dirty
DirtyFor(uri) ==
  {d \in DOMAIN textDocuments :
     uri # NONE /\ isSameResource(d, uri) /\ textDocuments[d].isDirty}

\* the path handed to the engine is a snapshot that holds the text of d
SnapshotOf(fsPath, d) ==
  /\ fsPath.kind = "temp"
  /\ fsPath.directory \in DOMAIN tempDirs
  /\ tempDirs[fsPath.directory] # <<>>
  /\ tempDirs[fsPath.directory][1].text = getText(d)

\* C26: unsaved content is what gets rendered.  While the engine runs, the
\* path it was given for the template, and for the context, is a snapshot
\* holding the in-memory text whenever the document the manager takes for
\* that uri, also under case-insensitive comparison, is dirty.
C26_UnsavedRendered ==
  call.pc = "spawned" =>
    /\ \A d \in DirtyFor(call.template) :
         SnapshotOf(call.args[1].template, d)
    /\ \A d \in DirtyFor(call.contextFile) :
         /\ call.args[1].context # <<>>
         /\ SnapshotOf(call.args[1].context[1], d)

\* the spawnProcess promise is pending
Pending == child # <<>> /\ child[1].promise.state = "pending"

\* C27: transport failure versus engine error.  A close event with a
\* non-zero code rejects spawnProcess whatever the output holds, and render
\* throws with it; a close event with code 0 and a response resolves it, and
\* render returns a result whose errorMessage is the response's error.  The
\* worker exits with code 0 whenever it has written a response, with or
\* without an error in it.
C27_ExitCode ==
  [][/\ \A code \in ExitCodes, stdout \in Stdouts :
          (ChildClose(code, stdout) /\ Pending) =>
             /\ code # 0 =>
                  child'[1].promise =
                    rejectedWith(Failed("Go renderer exited with code", <<code>>))
             /\ (code = 0 /\ stdout.kind = "json") =>
                  child'[1].promise = resolved(stdout.value)
     /\ AwaitSpawn =>
          /\ child[1].promise.state = "rejected" =>
               call'.pending = <<thrown(child[1].promise.reason)>>
          /\ child[1].promise.state = "resolved" =>
               /\ call'.pending[1].kind = "result"
               /\ call'.pending[1].errorMessage =
                    orElse(child[1].promise.value.error, NONE)
     /\ Finally => call'.outcome = call.pending
     /\ \A resp \in WorkerResponses :
          /\ main(resp, TRUE).code = 0
          /\ main(resp, TRUE).stdout = encode(resp)
    ]_vars

\* C27 witness: the process wrote a response and exited with code 1, and
\* render has thrown
C27_Witness ==
  /\ call.pc = "settled"
  /\ call.outcome[1].kind = "throw"
  /\ call.outcome[1].message.error = "Go renderer exited with code"
  /\ child[1].stdout.kind = "json"

Trigger(origin) ==
  \/ /\ origin = "open"
     /\ \E u \in TemplateUris, c \in OptContextUris, l \in LanguageIds :
          ShowPreview(u, c, l)
  \/ /\ origin = "update"
     /\ \E u \in TemplateUris, c \in OptContextUris : UpdateContext(u, c)
  \/ /\ origin = "timer"
     /\ \E t \in TimerIds : TimerFire(t)

\* a call of render has spawned the engine at most once (line 141 is the
\* one call of spawnProcess)
SpawnsOnce == call.pc # "idle" => call.spawns <= 1

\* C29: no automatic retry.  A step starts at most one engine invocation,
\* and the invocation it starts is the doing of exactly one trigger: a
\* showPreview call, an updateContext call or the firing of one timer.  The
\* end of a render, by a result, an engine error or an exception, starts no
\* invocation, calls renderSession for nothing and arms no timer.  A call of
\* render spawns the engine at most once.
C29_NoRetry ==
  /\ []SpawnsOnce
  /\ [][/\ BagCardinality(Added) <= 1
        /\ \A task \in BagToSet(Added) :
             /\ Trigger(task.origin)
             /\ called' = <<[session |-> task.session, force |-> task.force,
                             origin |-> task.origin, invoked |-> TRUE]>>
        /\ \A task \in TaskSet, outcome \in RenderOutcomes :
             RenderComplete(task, outcome) =>
               /\ Added = EmptyBag
               /\ called' = <<>>
               /\ timers' = timers
       ]_vars

\* C29 witness: a render has thrown, the error was posted, and no engine
\* invocation and no timer is left
C29_Witness ==
  /\ posted # <<>>
  /\ posted[1].type = "error"
  /\ tasks = EmptyBag
  /\ timers = <<>>
  /\ sessions # <<>>

\* C30: last good output stable under failure.  The lastSuccessful of a
\* session changes only in the step that ends one of its renders with a
\* result without errorMessage; the end of a render with an engine error or
\* an exception, a skipped render and every other step leave it as it is.
C30_LastGoodStable ==
  [][\A sid \in DOMAIN heap \cap DOMAIN heap' :
       heap'[sid].lastSuccessful # heap[sid].lastSuccessful =>
         \E task \in TaskSet, outcome \in RenderResults :
           /\ RenderComplete(task, outcome)
           /\ task.session = sid
           /\ outcome.errorMessage = NONE
           /\ heap'[sid].lastSuccessful[1].rendered = outcome.rendered
    ]_vars

\* C30 witness: a render of a session with a last good output has ended with
\* an engine error: the payload is stale and shows the last good output,
\* which the session still holds
C30_Witness ==
  /\ posted # <<>>
  /\ posted[1].type = "render"
  /\ posted[1].payload.errorMessage # NONE
  /\ posted[1].payload.isStale
  /\ heap[posted[1].panel].lastSuccessful # <<>>
  /\ posted[1].payload.rendered = heap[posted[1].panel].lastSuccessful[1].rendered

\* the display surface of session object sid has been disposed
IsDisposed(sid) == panels[heap[sid].panel].disposed

\* C31: disposed is terminal.  No timer is armed for a session whose display
\* surface has been disposed, whether it was armed before the disposal or a
\* document notification came after it; and no step calls renderSession from
\* a timer, or starts an engine invocation from one, for a session that was
\* disposed before the step.
C31_DisposedTerminal ==
  /\ [](\A t \in DOMAIN timers : ~IsDisposed(timers[t]))
  /\ [][/\ \A t \in TimerIds :
             TimerFire(t) => ~IsDisposed(timers[t])
        /\ \A task \in BagToSet(Added) :
             task.origin = "timer" => ~IsDisposed(task.session)
        /\ \A u \in Uris :
             (ChangeDocument(u) \/ SaveDocument(u)) =>
               \A sid \in DOMAIN heap :
                 IsDisposed(sid) => /\ sid \in DOMAIN heap'
                                    /\ heap'[sid] = heap[sid]
                                    /\ Armed(timers', sid) = {}
       ]_vars

\* C31 witness: a session was disposed with its timer armed while a render
\* of it was in flight: the session still holds the handle, and the timer is
\* no longer armed
C31_Witness ==
  \E task \in TaskSet :
    /\ IsDisposed(task.session)
    /\ heap[task.session].renderTimer # 0
    /\ Armed(timers, task.session) = {}
    /\ docs[FileOf(heap[task.session].templateUri)].isDirty

\* the message handled last, the session it went to and what was done
Selected == request[1].message.payload[1]
SelectSession == heap[request[1].session]

\* C32: diagnostic.select routing.  A diagnostic.select message with details
\* reveals, when the document opens, a location in the session's context
\* document if the source is context and the session has a context document,
\* and in its template document otherwise, at the line and character of the
\* message or 0 where they are missing; when the document does not open, a
\* line is logged and nothing is revealed.  Handling a message changes no
\* session, panel, timer, render or diagnostics.
C32_SelectRouting ==
  [][\A sid \in SessionIds, message \in WebviewMessages, opens \in BOOLEAN :
       ReceiveMessage(sid, message, opens) =>
         /\ UNCHANGED <<sessions, heap, panels, timers, tasks, collection>>
         /\ (message.type = "diagnostic.select" /\ message.payload # <<>>) =>
              /\ opens =>
                   /\ mapped'[1].logged = <<>>
                   /\ Len(mapped'[1].revealed) = 1
                   /\ (mapped'[1].revealed[1].uri = heap[sid].contextUri) <=>
                        (message.payload[1].source = "context"
                         /\ heap[sid].contextUri # NONE)
                   /\ mapped'[1].revealed[1].uri
                        \in {heap[sid].contextUri, heap[sid].templateUri}
                   /\ mapped'[1].revealed[1].line =
                        IF message.payload[1].line = UNDEF THEN 0
                        ELSE message.payload[1].line
                   /\ mapped'[1].revealed[1].character =
                        IF message.payload[1].character = UNDEF THEN 0
                        ELSE message.payload[1].character
              /\ ~opens => /\ mapped'[1].revealed = <<>>
                           /\ mapped'[1].logged # <<>>
    ]_vars

\* C32 witness: a session with a context document got a diagnostic.select
\* for the context without line and character, and the start of its context
\* document was revealed
C32_Witness ==
  /\ request # <<>>
  /\ request[1].session \in DOMAIN heap
  /\ request[1].message.payload # <<>>
  /\ Selected.source = "context"
  /\ Selected.line = UNDEF
  /\ Selected.character = UNDEF
  /\ mapped[1].revealed = <<[uri |-> "c.json", line |-> 0, character |-> 0]>>
  /\ SelectSession.contextUri = "c.json"

\* C33: renderer selection by rendererMode.  In auto mode the bundled worker
\* is spawned when it is available and the configured goBinary otherwise; in
\* bundled mode the bundled worker is spawned, and when it is missing nothing
\* is spawned and render fails with the error that says so; in system mode
\* the goBinary is spawned whether or not a bundled worker is available.
C33_RendererMode ==
  [][/\ \A rendererMode \in RendererModes, bundledBinary \in BOOLEAN :
          ResolveCommand(rendererMode, bundledBinary) =>
            IF rendererMode = "bundled" /\ ~bundledBinary
            THEN /\ child' = child
                 /\ call'.spawns = call.spawns
                 /\ call'.pending =
                      <<thrown(Failed("Bundled Go renderer is required but not available", <<>>))>>
            ELSE /\ child' # <<>>
                 /\ call'.spawns = call.spawns + 1
                 /\ call'.args[1].command =
                      IF rendererMode = "system" THEN "goBinary"
                      ELSE IF rendererMode = "bundled" THEN "bundledBinary"
                      ELSE IF bundledBinary THEN "bundledBinary"
                      ELSE "goBinary"
                 /\ call'.args[1].mode =
                      IF call'.args[1].command = "goBinary" THEN "system"
                      ELSE "bundled"
     /\ (Finally /\ child = <<>>) =>
          /\ call'.outcome = call.pending
          /\ call'.outcome[1].kind = "throw"
    ]_vars

\* C33 witness: in bundled mode without a bundled worker render has failed
\* with the explanatory error and no process was spawned
C33_Witness ==
  /\ call.pc = "settled"
  /\ call.spawns = 0
  /\ child = <<>>
  /\ call.outcome[1].kind = "throw"
  /\ call.outcome[1].message.error =
       "Bundled Go renderer is required but not available"

\* the call of execute that was followed, and what it returned
Executed == mapped # <<>>
TemplateRead ==
  ReadFile(request[1].files, request[1].templatePath)
ContextLoaded ==
  loadContext(request[1].files, request[1].contextPath)
TemplateFails ==
  /\ TemplateRead.err = <<>>
  /\ ContextLoaded.err = <<>>
  /\ TemplateRead.value \in {<<"{", "{">>, <<"{", "{", "f", "}", "}">>}
ExecuteFails ==
  \/ request[1].templatePath = <<>>
  \/ request[1].templatePath \notin DOMAIN request[1].files
  \/ /\ TrimSpace(request[1].contextPath) # <<>>
     /\ request[1].contextPath \notin DOMAIN request[1].files
  \/ /\ TrimSpace(request[1].contextPath) # <<>>
     /\ request[1].contextPath \in DOMAIN request[1].files
     /\ TrimSpace(request[1].files[request[1].contextPath])
          \notin {<<>>, <<"{", "}">>}
  \/ TemplateRead.value \in {<<"{", "{">>, <<"{", "{", "f", "}", "}">>}

\* C34: worker error response shape.  execute returns a response with a
\* non-empty Error and no rendered text when the template path is empty, a
\* file cannot be read, the context is not valid JSON, or the template does
\* not parse or execute; for a template that does not parse or execute the
\* response carries exactly one diagnostic, of severity error; a successful
\* render carries no Error and no diagnostics.
C34_ErrorShape ==
  Executed =>
    /\ ExecuteFails => /\ mapped[1].Error # <<>>
                       /\ mapped[1].Rendered = <<>>
    /\ TemplateFails => /\ Len(mapped[1].Diagnostics) = 1
                        /\ mapped[1].Diagnostics[1].Severity = "error"
    /\ ~ExecuteFails => /\ mapped[1].Error = <<>>
                        /\ mapped[1].Diagnostics = <<>>
                        /\ mapped[1].Rendered = TemplateRead.value

\* C34 witness: a template that parses and fails when executed, with a valid
\* context, gave an Error and one diagnostic of severity error
C34_Witness ==
  /\ Executed
  /\ request[1].templatePath = <<"t">>
  /\ request[1].contextPath = <<"c">>
  /\ ContextLoaded = [value |-> <<"data">>, err |-> <<>>]
  /\ TemplateRead.value = <<"{", "{", "f", "}", "}">>
  /\ Len(mapped[1].Diagnostics) = 1
  /\ mapped[1].Error # <<>>

\* the render that ends is the last one of its session that was in flight,
\* and no timer is armed for the session: nothing further is to come
LastToComplete(task) ==
  /\ InFlight(task.session) = {task}
  /\ CopiesIn(task, tasks) = 1
  /\ Armed(timers, task.session) = {}
  /\ task.session \in Range(sessions)

\* the recorded signatures of session are those of its documents as they are
Fresh(session) ==
  /\ session.templateSignature = getDocumentSignature(session.templateUri)
  /\ session.contextSignature = getDocumentSignature(session.contextUri)

\* C35 as stated: when the last render of a session that was in flight
\* returns and no trigger is pending, the recorded signatures are those of
\* the render that was started last, the one that read the documents as they
\* are now, also when an earlier render returns after a later one.
C35_AsStated ==
  [][\A task \in TaskSet, outcome \in RenderResults :
       (RenderComplete(task, outcome) /\ LastToComplete(task)) =>
          Fresh(heap[task.session])'
    ]_vars

\* C35: out-of-order completion, last write wins.  Every render that returns
\* records, in a session object that is still referred to, the signatures
\* computed when it was started and, on a panel that
\* is not disposed, posts its own payload, whichever renders of the session
\* were started after it and have returned before it: what the session holds
\* after all its renders stems from the render that returned last.
C35_LastWriteWins ==
  [][\A task \in TaskSet, outcome \in RenderResults :
       RenderComplete(task, outcome) =>
         /\ task.session \in DOMAIN heap' =>
              /\ heap'[task.session].templateSignature = task.templateSignature
              /\ heap'[task.session].contextSignature = task.contextSignature
         /\ ~IsDisposed(task.session) =>
              /\ Len(posted') = 1
              /\ posted'[1].type = "render"
              /\ posted'[1].panel = heap[task.session].panel
              /\ posted'[1].payload.errorMessage = outcome.errorMessage
              /\ posted'[1].payload.durationMs = outcome.durationMs
    ]_vars

\* C35 witness: all renders of a session have returned and no timer is
\* armed; the payload posted last is of a render that read the template
\* before its change, and its signature is the one recorded
C35_Witness ==
  \E sid \in Range(sessions) :
    /\ InFlight(sid) = {}
    /\ Armed(timers, sid) = {}
    /\ Len(posted) = 1
    /\ posted[1].type = "render"
    /\ posted[1].panel = heap[sid].panel
    /\ heap[sid].templateSignature = <<"open", 0, "clean">>
    /\ getDocumentSignature(heap[sid].templateUri) = <<"open", 1, "dirty">>

\* C36: diagnostics are mapped against the pair that was rendered.  When a
\* render returns, its diagnostics are resolved, tagged and written to the
\* collection with the template and the context the engine was invoked with,
\* also when showPreview or updateContext has given the session another
\* template or context while the render was in flight.
C36_RenderedPair ==
  [][\A task \in TaskSet, outcome \in RenderResults :
       (RenderComplete(task, outcome) /\ ~IsDisposed(task.session)) =>
         /\ collection' =
              applyDiagnosticsCollection(collection, task.templateArg,
                                         task.contextArg, outcome.diagnostics)
         /\ posted'[1].payload.diagnostics =
              applyDiagnosticsResult(task.templateArg, task.contextArg,
                                     outcome.diagnostics)
    ]_vars

\* C37: signatures are recorded only on success.  A render that returns with
\* an errorMessage leaves the template and context signatures recorded in
\* its session as they were.
C37_SignaturesOnSuccess ==
  [][\A task \in TaskSet, outcome \in RenderResults :
       (/\ RenderComplete(task, outcome)
        /\ outcome.errorMessage # NONE
        /\ task.session \in DOMAIN heap') =>
          /\ heap'[task.session].templateSignature =
               heap[task.session].templateSignature
          /\ heap'[task.session].contextSignature =
               heap[task.session].contextSignature
    ]_vars

\* C38: the render payload.  Every render payload a session posts is stale
\* exactly when it carries an errorMessage and the session had a last
\* successful output before this render; a payload without errorMessage is
\* not stale and carries the markup flag of the session as it is, and a stale
\* payload carries the markup flag stored with the last successful output.
C38_PayloadShape ==
  [][\A task \in TaskSet, outcome \in RenderResults :
       (RenderComplete(task, outcome) /\ posted' # <<>>
        /\ posted'[1].type = "render") =>
          /\ posted'[1].payload.isStale <=>
               (/\ outcome.errorMessage # NONE
                /\ heap[task.session].lastSuccessful # <<>>)
          /\ posted'[1].payload.errorMessage = outcome.errorMessage
          /\ posted'[1].payload.errorMessage = NONE =>
               /\ ~posted'[1].payload.isStale
               /\ posted'[1].payload.isHtml = isHtmlTemplate(heap[task.session])
          /\ posted'[1].payload.isStale =>
               /\ posted'[1].payload.isHtml =
                    heap[task.session].lastSuccessful[1].isHtml
               /\ posted'[1].payload.rendered =
                    heap[task.session].lastSuccessful[1].rendered
    ]_vars

\* C38 witness: a stale payload marked as markup, as the last successful
\* output was, of a session whose language is by now plain text
C38_Witness ==
  /\ posted # <<>>
  /\ posted[1].type = "render"
  /\ posted[1].payload.isStale
  /\ posted[1].payload.isHtml
  /\ heap[posted[1].panel].languageId = "plaintext"
  /\ ~isHtmlTemplate(heap[posted[1].panel])

\* C39: updateContext without a session.  A call of updateContext for a
\* template that has no session in the registry creates no session and no
\* panel, calls renderSession for nothing, invokes no engine, posts nothing
\* and leaves the registry, the timers and the diagnostics as they were.
C39_UpdateContextNoSession ==
  [][\A u \in TemplateUris, c \in OptContextUris :
       (UpdateContext(u, c) /\ getKey(u) \notin DOMAIN sessions) =>
          /\ UNCHANGED <<sessions, heap, panels, timers, tasks, collection>>
          /\ called' = <<>>
          /\ posted' = <<>>
    ]_vars

\* C39 witness: commands were received, no document was touched, and there
\* is still no session, no panel and nothing in flight
C39_Witness ==
  /\ events = MaxEvents
  /\ subscribed
  /\ sessions = <<>>
  /\ heap = <<>>
  /\ panels = <<>>
  /\ tasks = EmptyBag
  /\ \A f \in Files : docs[f].version = 0

\* the keys a template can have in the map
AssociationKeys ==
  {normalizeAssociationPath(u.relative) : u \in AssociationUris}

\* the places in the history where setActiveContext was called for the template
SetsOf(key) ==
  {i \in 1..Len(history) :
     /\ history[i].op = "setActiveContext"
     /\ workspaceRelativePath(history[i].templateUri) = <<key>>}

\* the defaults a configuration gives the template, under any spelling
DefaultsOf(defaultContext, key) ==
  {defaultContext[j][2] : j \in {n \in 1..Len(defaultContext) :
                     normalizeAssociationPath(defaultContext[n][1]) = key}}

\* the places in the history where a configuration names the template
NamesOf(key) ==
  {i \in 1..Len(history) :
     /\ history[i].op = "configuration"
     /\ DefaultsOf(history[i].defaultContext, key) # {}}

Latest(S) == CHOOSE x \in S : \A y \in S : y <= x

\* the association of the template is what the history says it should be
StickyAssociation(key) ==
  IF SetsOf(key) # {}
  THEN /\ key \in DOMAIN associations
       /\ associations[key] = history[Latest(SetsOf(key))].context.relativePath
  ELSE IF NamesOf(key) # {}
  THEN /\ key \in DOMAIN associations
       /\ associations[key]
            \in DefaultsOf(history[Min(NamesOf(key))].defaultContext, key)
  ELSE key \notin DOMAIN associations

\* C40: after any sequence of setActiveContext calls and configuration
\* changes, the association of a template is the context of the most recent
\* setActiveContext for it if there was one, and otherwise the default of the
\* first configuration that named it; a configuration change never alters or
\* removes an association that exists.
C40_StickyAssociations ==
  /\ [](\A key \in AssociationKeys : StickyAssociation(key))
  /\ [][\A updated \in DefaultContexts :
          ConfigurationChanged(updated) =>
            \A key \in DOMAIN associations :
              /\ key \in DOMAIN associations'
              /\ associations'[key] = associations[key]
       ]_vars

\* a default, then a choice of the user, then a configuration that names the
\* template again under its other spelling with the first context
C40_Witness ==
  /\ Len(history) = 3
  /\ history[1] = [op |-> "configuration",
                   defaultContext |-> <<<<<<"d", "\\", "t">>, "c1.json">>>>]
  /\ history[2] = [op |-> "setActiveContext",
                   templateUri |-> [relative |-> <<"d", "\\", "t">>],
                   context |-> [relativePath |-> "c2.json"]]
  /\ history[3] = [op |-> "configuration",
                   defaultContext |-> <<<<<<"d", "/", "t">>, "c1.json">>,
                                        <<<<"t">>, "c1.json">>>>]
  /\ associations = (<<"d", "/", "t">> :> "c2.json") @@ (<<"t">> :> "c1.json")

====
